---------------------------- MODULE Spec2Model ----------------------------
(***************************************************************************)
(* The validation and PATCH engine of the SCIM server:                     *)
(*   schema.CoreAttribute.validate / validateSingular (core attribute),    *)
(*   schema.Schema.validate / ValidatePatchOperation  (schema),            *)
(*   ResourceType.validateOperationValue / validatePatch (resource type).  *)
(*                                                                         *)
(* Go strings are sequences of one-character strings, so that              *)
(* strings.ToLower and strings.EqualFold are computed and not assumed.     *)
(* A JSON value (Go interface{}) is a record tagged with its dynamic type. *)
(* A Go map is a function from its keys; `for k, v := range m` visits the  *)
(* keys in an order the language leaves open, so every operation that      *)
(* ranges over a map yields the SET of results some order produces.        *)
(***************************************************************************)
EXTENDS Integers, Sequences, FiniteSets, TLC

(***************************************************************************)
(* Bounds of the model.                                                    *)
(***************************************************************************)
\* the largest number of keys of an input mapping (resource, operation value)
MaxKeys == 3
\* the largest number of operations of a PATCH request
MaxOps == 3
\* the largest spare capacity of the configured base schema's Attributes
MaxSpare == 1
\* the number of calls in flight at once on the one ResourceType
MaxCalls == 2

(***************************************************************************)
(* Strings.                                                                *)
(***************************************************************************)
UpperLetters ==
    <<"A","B","C","D","E","F","G","H","I","J","K","L","M",
      "N","O","P","Q","R","S","T","U","V","W","X","Y","Z">>
LowerLetters ==
    <<"a","b","c","d","e","f","g","h","i","j","k","l","m",
      "n","o","p","q","r","s","t","u","v","w","x","y","z">>
Digits == {"0","1","2","3","4","5","6","7","8","9"}

\* The characters strings are written with: the printable ASCII characters,
\* each as itself, and these characters beyond ASCII, each written by its
\* code point: capital and small e acute, the Kelvin sign, the long s, the
\* capital I with dot above, and of ASCII the character DEL and the grave
\* accent (the backtick).
char_Eacute == "U+00C9"
char_eacute == "U+00E9"
char_Kelvin == "U+212A"
char_longS == "U+017F"
char_Idot == "U+0130"
char_DEL == "U+007F"
char_grave == "U+0060"

\* unicode.ToLower: a capital letter to its small letter (the Kelvin sign
\* to k, the capital I with dot above to i), any other character of the
\* alphabet above to itself
toLower ==
    [c \in {UpperLetters[i] : i \in 1..26} \cup {char_Eacute, char_Kelvin, char_Idot} |->
        IF c = char_Eacute THEN char_eacute
        ELSE IF c = char_Kelvin THEN "k"
        ELSE IF c = char_Idot THEN "i"
        ELSE LowerLetters[CHOOSE i \in 1..26 : UpperLetters[i] = c]]
LowerChar(c) == IF c \in DOMAIN toLower THEN toLower[c] ELSE c

\* strings.ToLower
ToLower(s) == [i \in 1..Len(s) |-> LowerChar(s[i])]

\* unicode.SimpleFold, by its orbits: the characters of one orbit are given
\* the orbit's small ASCII letter, or its small letter.  K, k and the
\* Kelvin sign are one orbit, S, s and the long s another; the capital I
\* with dot above folds to i and i folds to I and back, so it is in the
\* orbit of no other character.
FoldChar(c) ==
    IF c = char_Kelvin THEN "k"
    ELSE IF c = char_longS THEN "s"
    ELSE IF c = char_Idot THEN c
    ELSE LowerChar(c)

\* strings.EqualFold: the strings have the same number of characters and
\* at each place the two characters are equal or of one SimpleFold orbit
EqualFold(s, u) ==
    /\ Len(s) = Len(u)
    /\ \A i \in 1..Len(s) : FoldChar(s[i]) = FoldChar(u[i])

\* the strings the configuration and the inputs are written with
str_empty == << >>
str_userName == <<"u","s","e","r","N","a","m","e">>
str_USERNAME == <<"U","S","E","R","N","A","M","E">>
str_uLongSerName == <<"u",char_longS,"e","r","N","a","m","e">>
str_active == <<"a","c","t","i","v","e">>
str_ACTIVE == <<"A","C","T","I","V","E">>
str_id == <<"i","d">>
str_ID == <<"I","D">>
str_name == <<"n","a","m","e">>
str_givenName == <<"g","i","v","e","n","N","a","m","e">>
str_GIVENNAME == <<"G","I","V","E","N","N","A","M","E">>
str_formatted == <<"f","o","r","m","a","t","t","e","d">>
str_emails == <<"e","m","a","i","l","s">>
str_value == <<"v","a","l","u","e">>
str_primary == <<"p","r","i","m","a","r","y">>
str_code == <<"c","o","d","e">>
str_CODE == <<"C","O","D","E">>
str_password == <<"p","a","s","s","w","o","r","d">>
str_externalId == <<"e","x","t","e","r","n","a","l","I","d">>
str_nick == <<"n","i","c","k">>
str_manager == <<"m","a","n","a","g","e","r">>
str_grade == <<"g","r","a","d","e">>
str_costCenter == <<"c","o","s","t","C","e","n","t","e","r">>
str_urnU == <<"u","r","n",":","u">>
str_urnE == <<"u","r","n",":","e">>
str_urnD == <<"u","r","n",":","d">>
str_urnEManager == <<"u","r","n",":","e",":","m","a","n","a","g","e","r">>
str_true == <<"t","r","u","e">>
str_True == <<"T","r","u","e">>
str_TRUE == <<"T","R","U","E">>
str_false == <<"f","a","l","s","e">>
str_False == <<"F","a","l","s","e">>
str_maybe == <<"m","a","y","b","e">>
str_x == <<"x">>
str_y == <<"y">>
str_7 == <<"7">>
str_1p5 == <<"1",".","5">>
str_neg1p5 == <<"-","1",".","5">>
str_1e3 == <<"1","e","3">>
str_zeros1 == <<"0","0","0","0","0","0","0","0","0","0",
                "0","0","0","0","0","0","0","0","0","1">>
str_add == <<"a","d","d">>
str_Add == <<"A","d","d">>
str_replace == <<"r","e","p","l","a","c","e">>
str_REPLACE == <<"R","E","P","L","A","C","E">>
str_remove == <<"r","e","m","o","v","e">>
str_move == <<"m","o","v","e">>

(***************************************************************************)
(* JSON values as Go holds them after unmarshal with UseNumber.            *)
(***************************************************************************)
Null == [t |-> "null"]
Bool(b) == [t |-> "bool", v |-> b]
String(s) == [t |-> "string", v |-> s]
\* json.Number: the number's token, kept as text
Number(tok) == [t |-> "number", v |-> tok]
\* map[string]interface{}
Map(f) == [t |-> "map", v |-> f]
\* []interface{}
List(q) == [t |-> "list", v |-> q]
\* int64 and float64, the results of json.Number.Int64 and .Float64; a
\* float64 is kept as <<digits, number of fraction digits>>
Int64(n) == [t |-> "int64", v |-> n]
Float64(d) == [t |-> "float64", v |-> d]

EmptyMap == [k \in {} |-> Null]
\* m[k] = x on a Go map
Put(m, k, x) == [j \in (DOMAIN m) \cup {k} |-> IF j = k THEN x ELSE m[j]]
\* m[k] read from a Go map: the zero value nil when the key is missing
Get(m, k) == IF k \in DOMAIN m THEN m[k] ELSE Null

(***************************************************************************)
(* Results: (value, nil), (nil, &ScimError) or a run-time panic.           *)
(***************************************************************************)
Ok(x) == [kind |-> "ok", val |-> x]
Fail(e) == [kind |-> "err", err |-> e]
Panic == [kind |-> "panic"]

\* errors.ScimError: its ScimType, the text the call site adds to Detail,
\* and the attribute names that text ends with
ScimError(scimType, msg, name, sub) ==
    [scimType |-> scimType, msg |-> msg, name |-> name, sub |-> sub]
InvalidValue(msg, name) == ScimError("invalidValue", msg, name, str_empty)


(***************************************************************************)
(* schema.CoreAttribute.  Only the fields validation reads are kept: name, *)
(* typ, multiValued, mutability, required and subAttributes.               *)
(***************************************************************************)
CoreAttribute(name, typ, multiValued, mutability, required, subAttributes) ==
    [name |-> name, typ |-> typ, multiValued |-> multiValued,
     mutability |-> mutability, required |-> required,
     subAttributes |-> subAttributes]

\* SimpleCoreAttribute: a non-complex attribute, no sub-attributes
SimpleCoreAttribute(name, typ, multiValued, mutability, required) ==
    CoreAttribute(name, typ, multiValued, mutability, required, << >>)

\* ComplexCoreAttribute: it panics when two sub-attributes have one name
\* after strings.ToLower; otherwise the sub-attributes are copied without
\* their own sub-attributes.  (checkAttributeName, called first on the
\* name, is defined outside the files at hand and is not modelled; the names
\* used here are letters only.)
ComplexCoreAttribute(name, multiValued, mutability, required, subs) ==
    IF \E i, j \in 1..Len(subs) :
            i < j /\ ToLower(subs[i].name) = ToLower(subs[j].name)
    THEN Panic
    ELSE CoreAttribute(name, "complex", multiValued, mutability, required,
            [i \in 1..Len(subs) |->
                CoreAttribute(subs[i].name, subs[i].typ, subs[i].multiValued,
                              subs[i].mutability, subs[i].required, << >>)])

\* validBooleanStrings, were it to hold the lower-case spellings only
validBooleanStrings_lowerOnly ==
    [s \in {str_true, str_false} |-> s = str_true]

\* validBooleanStrings
validBooleanStrings ==
    [s \in {str_True, str_False, str_true, str_false} |->
        s \in {str_True, str_true}]

\* the regular expression of the binary type:
\* ^([A-Za-z0-9+/]{4})*([A-Za-z0-9+/]{3}=|[A-Za-z0-9+/]{2}==)?$
Base64Chars ==
    {UpperLetters[i] : i \in 1..26} \cup {LowerLetters[i] : i \in 1..26}
        \cup Digits \cup {"+", "/"}
MatchBase64(bin) ==
    LET n == Len(bin) IN
    /\ n % 4 = 0
    /\ \A i \in 1..n : i <= n - 2 => bin[i] \in Base64Chars
    /\ n > 0 =>
        \/ bin[n-1] \in Base64Chars /\ bin[n] \in Base64Chars
        \/ bin[n-1] \in Base64Chars /\ bin[n] = "="
        \/ bin[n-1] = "=" /\ bin[n] = "="

DigitVal(c) ==
    CHOOSE n \in 0..9 : <<"0","1","2","3","4","5","6","7","8","9">>[n+1] = c

\* datetime.Parse of github.com/di-wu/xsd-datetime, a library outside the
\* repository: the date parses when it is in the lexical space of the
\* dateTime type of XML Schema, the extended ISO-8601 form
\*   -?YYYY-MM-DDTHH:mm:ss(.s+)?(Z|(+|-)HH:mm)?
\* the year has four digits or more, with no leading zero when more than
\* four; the month is 01..12 and the day is one the month has in that year;
\* the time is 00:00:00..23:59:59, or 24:00:00 with no fraction but zeros;
\* the zone offset is at most 14:00
DateTimeParses(date) ==
    \E s \in {IF Len(date) > 0 /\ date[1] = "-" THEN Tail(date) ELSE date} :
    \E n \in {Len(s)} :
    \* the digits of the year
    \E y \in {q \in 0..n : /\ \A i \in 1..q : s[i] \in Digits
                           /\ (q = n \/ s[q + 1] \notin Digits)} :
        /\ y >= 4
        /\ y > 4 => s[1] # "0"
        /\ n >= y + 15
        /\ \A i \in {2, 3, 5, 6, 8, 9, 11, 12, 14, 15} : s[y + i] \in Digits
        /\ s[y + 1] = "-" /\ s[y + 4] = "-" /\ s[y + 7] = "T"
        /\ s[y + 10] = ":" /\ s[y + 13] = ":"
        /\ \E two \in {[i \in {y - 3, y - 1, y + 2, y + 5, y + 8, y + 11, y + 14} |->
                            10 * DigitVal(s[i]) + DigitVal(s[i + 1])]} :
           \E year400 \in {(100 * two[y - 3] + two[y - 1]) % 400} :
           \E month \in {two[y + 2]} :
           \E daysIn \in {IF month = 2
                          THEN (IF year400 % 4 = 0 /\ (year400 % 100 # 0 \/ year400 = 0)
                                THEN 29 ELSE 28)
                          ELSE IF month \in {4, 6, 9, 11} THEN 30 ELSE 31} :
           \* the length of the fraction, its point included: none, or a point
           \* and one digit or more
           \E f \in {q \in 0..(n - y - 15) :
                        /\ q > 0 => s[y + 16] = "."
                        /\ \A i \in (y + 17)..(y + 15 + q) : s[i] \in Digits
                        /\ q # 1
                        /\ (y + 15 + q = n \/ s[y + 16 + q] \notin Digits)
                        /\ (q = 0 /\ n > y + 15) => s[y + 16] # "."} :
           \E zone \in {SubSeq(s, y + 16 + f, n)} :
                /\ month \in 1..12
                /\ two[y + 5] \in 1..daysIn
                /\ \/ two[y + 8] <= 23 /\ two[y + 11] <= 59 /\ two[y + 14] <= 59
                   \/ /\ two[y + 8] = 24 /\ two[y + 11] = 0 /\ two[y + 14] = 0
                      /\ \A i \in (y + 17)..(y + 15 + f) : s[i] = "0"
                /\ \/ zone = << >>
                   \/ zone = <<"Z">>
                   \/ /\ Len(zone) = 6
                      /\ zone[1] \in {"+", "-"}
                      /\ zone[4] = ":"
                      /\ \A i \in {2, 3, 5, 6} : zone[i] \in Digits
                      /\ \E zh \in {10 * DigitVal(zone[2]) + DigitVal(zone[3])} :
                         \E zm \in {10 * DigitVal(zone[5]) + DigitVal(zone[6])} :
                            (zh <= 13 /\ zm <= 59) \/ (zh = 14 /\ zm = 0)

\* a <= b for two digit strings of one length
DigitsLeq(a, b) ==
    \/ a = b
    \/ \E i \in 1..Len(a) :
        /\ DigitVal(a[i]) < DigitVal(b[i])
        /\ \A j \in 1..(i-1) : a[j] = b[j]

\* a digit string without its leading zeros
StripZeros(s) ==
    LET first == {i \in 1..Len(s) : s[i] # "0"}
    IN  IF first = {} THEN << >>
        ELSE SubSeq(s, CHOOSE i \in first : \A j \in first : i <= j, Len(s))

\* json.Number.Int64: strconv.ParseInt of the token, base 10, 64 bits: an
\* optional sign, then digits only (leading zeros count for nothing),
\* within the range of an int64
ParsesInt64(tok) ==
    LET neg == Len(tok) > 0 /\ tok[1] = "-"
        body == IF Len(tok) > 0 /\ tok[1] \in {"-", "+"} THEN Tail(tok) ELSE tok
        most == <<"9","2","2","3","3","7","2","0","3","6","8","5","4","7","7","5","8","0",
                  IF neg THEN "8" ELSE "7">>
        digits == StripZeros(body)
    IN  /\ Len(body) > 0
        /\ \A i \in 1..Len(body) : body[i] \in Digits
        /\ \/ Len(digits) < 19
           \/ Len(digits) = 19 /\ DigitsLeq(digits, most)
\* the int64 read, as its decimal numeral: no leading zero, a sign only
\* before a number below zero
ParseInt64(tok) ==
    LET digits == StripZeros(IF tok[1] \in {"-", "+"} THEN Tail(tok) ELSE tok)
    IN  IF digits = << >> THEN <<"0">>
        ELSE IF tok[1] = "-" THEN <<"-">> \o digits
        ELSE digits

\* F(v), with v worked out once, before F is
Given(v, F(_)) == CHOOSE r \in {F(x) : x \in {v}} : TRUE

\* Natural numbers of any size, written as their decimal digits (0..9), the
\* least significant first and the most significant not zero; zero is the
\* empty sequence.
NatTrim(a) ==
    LET last == {i \in 1..Len(a) : a[i] # 0}
    IN  IF last = {} THEN << >>
        ELSE SubSeq(a, 1, CHOOSE i \in last : \A j \in last : j <= i)
NatLess(a, b) ==
    \/ Len(a) < Len(b)
    \/ /\ Len(a) = Len(b)
       /\ \E i \in 1..Len(a) :
            a[i] < b[i] /\ \A j \in (i+1)..Len(a) : a[j] = b[j]
\* 2 * a: the carry into a place is 1 when the digit below is 5 or more
NatDouble(a) ==
    IF a = << >> THEN << >>
    ELSE [i \in 1..(Len(a) + (IF a[Len(a)] >= 5 THEN 1 ELSE 0)) |->
            IF i > Len(a) THEN 1
            ELSE ((2 * a[i]) % 10) + (IF i > 1 /\ a[i-1] >= 5 THEN 1 ELSE 0)]
\* a * 2^n
RECURSIVE NatTimesPow2(_, _)
NatTimesPow2(a, n) ==
    IF n = 0 THEN a
    ELSE IF n = 1 THEN NatDouble(a)
    ELSE Given(NatTimesPow2(a, n \div 2), LAMBDA x : NatTimesPow2(x, n - n \div 2))
\* a * 10^n
NatTimesPow10(a, n) == IF a = << >> THEN << >> ELSE [i \in 1..n |-> 0] \o a
\* a + b: the carry into a place is 1 when a place below makes one and the
\* places between pass it on
NatAdd(a, b) ==
    LET n == IF Len(a) < Len(b) THEN Len(b) ELSE Len(a)
        s(i) == (IF i <= Len(a) THEN a[i] ELSE 0) + (IF i <= Len(b) THEN b[i] ELSE 0)
        carry(i) == \E j \in 1..(i-1) :
                        s(j) >= 10 /\ \A l \in (j+1)..(i-1) : s(l) = 9
    IN  NatTrim([i \in 1..(n + 1) |-> (s(i) + (IF carry(i) THEN 1 ELSE 0)) % 10])
\* a - b, for a >= b: the borrow from a place is 1 when a place below
\* asks for one and the places between pass it on
NatSub(a, b) ==
    LET s(i) == a[i] - (IF i <= Len(b) THEN b[i] ELSE 0)
        borrow(i) == \E j \in 1..(i-1) :
                        s(j) < 0 /\ \A l \in (j+1)..(i-1) : s(l) = 0
    IN  NatTrim([i \in 1..Len(a) |-> (s(i) - (IF borrow(i) THEN 1 ELSE 0) + 10) % 10])

\* A float64: not a number, an infinity, or (-1)^neg * mant * 2^exp with
\* mant below 2^53 and, when exp is above -1074, not below 2^52 (zero is
\* mant << >> at exp -1074): the one way IEEE 754 writes the number.
NaN == [class |-> "NaN", neg |-> FALSE, mant |-> << >>, exp |-> 0]
Inf(neg) == [class |-> "Inf", neg |-> neg, mant |-> << >>, exp |-> 0]
Finite(neg, mant, exp) == [class |-> "finite", neg |-> neg, mant |-> mant, exp |-> exp]
Zero(neg) == Finite(neg, << >>, 0 - 1074)

\* n binary digits of the quotient st.r / d (below 2, with st.q the digits
\* before them): a digit is 1 when d can be taken from the remainder, which
\* is then doubled
RECURSIVE divideBinary(_, _, _)
divideBinary(st, d, n) ==
    IF n = 1
    THEN IF NatLess(st.r, d)
         THEN [q |-> NatDouble(st.q), r |-> NatDouble(st.r)]
         ELSE Given(NatSub(st.r, d), LAMBDA x :
                [q |-> IF st.q = << >> THEN <<1>>
                       ELSE [NatDouble(st.q) EXCEPT ![1] = @ + 1],
                 r |-> NatDouble(x)])
    ELSE Given(divideBinary(st, d, n \div 2), LAMBDA x :
            divideBinary(x, d, n - n \div 2))

\* the float64 nearest to n / d (both above zero), ties to the even
\* mantissa (IEEE 754 unbiased rounding); above the largest float64 it is
\* the infinity.  n / d lies between 10^(Len(n) - Len(d) - 1) and
\* 10^(Len(n) - Len(d) + 1), so its binary exponent is found within eleven
\* of an estimate; it is never taken below -1022 (the subnormal numbers).
roundFloat64(neg, n, d) ==
    LET estimate == ((Len(n) - Len(d) - 1) * 3322) \div 1000 - 2
        t0 == IF estimate < 0 - 1022 THEN 0 - 1022 ELSE estimate
    IN  Given(IF t0 >= 0 THEN <<n, NatTimesPow2(d, t0)>>
              ELSE <<NatTimesPow2(n, 0 - t0), d>>, LAMBDA s :
        Given(Cardinality({k \in 1..11 :
                Given(NatTimesPow2(s[2], k), LAMBDA x : ~NatLess(s[1], x))}), LAMBDA j :
        Given(NatTimesPow2(s[2], j), LAMBDA d1 :
        Given(divideBinary([q |-> << >>, r |-> s[1]], d1, 53), LAMBDA qr :
        Given(IF NatLess(d1, qr.r) \/ (qr.r = d1 /\ qr.q # << >> /\ qr.q[1] % 2 = 1)
              THEN NatAdd(qr.q, <<1>>) ELSE qr.q, LAMBDA m :
        Given(IF m = NatTimesPow2(<<1>>, 53)
              THEN Finite(neg, NatTimesPow2(<<1>>, 52), t0 + j - 52 + 1)
              ELSE Finite(neg, m, t0 + j - 52), LAMBDA f :
            IF f.exp > 971 THEN Inf(neg) ELSE f))))))

\* strconv.lower: c | ('x' - 'X'), the byte with bit 0x20 set.  Of the
\* printable ASCII characters those of 0x40..0x5F change, each to the
\* character 0x20 further on: @ to the grave accent, A..Z to a..z, [ \ ] ^ to
\* { | } ~ and _ to DEL.  A character beyond ASCII is bytes of 0x80 and
\* more, which stay so: it is written as it was, equal to no ASCII letter.
lower(c) ==
    LET from == <<"@">> \o UpperLetters \o <<"[", "\\", "]", "^", "_">>
        to == <<char_grave>> \o LowerLetters \o <<"{", "|", "}", "~", char_DEL>>
    IN  IF \E i \in 1..Len(from) : from[i] = c
        THEN to[CHOOSE i \in 1..Len(from) : from[i] = c] ELSE c

\* strconv.commonPrefixLenIgnoreCase: a byte of A..Z is compared as its
\* small letter, any other byte as it is
commonPrefixLenIgnoreCase(s, prefix) ==
    LET n == IF Len(s) < Len(prefix) THEN Len(s) ELSE Len(prefix)
        small(c) == IF c \in {UpperLetters[i] : i \in 1..26}
                    THEN LowerLetters[CHOOSE i \in 1..26 : UpperLetters[i] = c]
                    ELSE c
        agree == {i \in 0..n : \A j \in 1..i : small(s[j]) = prefix[j]}
    IN  CHOOSE i \in agree : \A j \in agree : j <= i

\* strconv.special: "nan" without a sign, "inf" or "infinity" with or
\* without one, in any case; n is the number of characters taken
special(s) ==
    LET none == [ok |-> FALSE, f |-> NaN, n |-> 0]
        signed == s[1] \in {"+", "-"}
        rest == IF signed THEN Tail(s) ELSE s
        n0 == commonPrefixLenIgnoreCase(rest, <<"i","n","f","i","n","i","t","y">>)
        n == IF 3 < n0 /\ n0 < 8 THEN 3 ELSE n0
    IN  IF Len(s) = 0 THEN none
        ELSE IF signed \/ s[1] \in {"i", "I"}
        THEN IF n \in {3, 8}
             THEN [ok |-> TRUE, f |-> Inf(s[1] = "-"),
                   n |-> (IF signed THEN 1 ELSE 0) + n]
             ELSE none
        ELSE IF s[1] \in {"n", "N"}
        THEN IF commonPrefixLenIgnoreCase(s, <<"n","a","n">>) = 3
             THEN [ok |-> TRUE, f |-> NaN, n |-> 3]
             ELSE none
        ELSE none

\* a digit of the base read: 0..9, and a..f in any case when hexadecimal
isDigit(c, hex) == c \in Digits \/ (hex /\ lower(c) \in {"a","b","c","d","e","f"})
digitValue(c) ==
    IF c \in Digits THEN DigitVal(c)
    ELSE 9 + CHOOSE v \in 1..6 : <<"a","b","c","d","e","f">>[v] = lower(c)
\* the first place from i on at which stop holds, or the place after the last
firstFrom(s, i, stop(_)) ==
    LET stops == {p \in i..Len(s) : stop(p)}
    IN  IF stops = {} THEN Len(s) + 1
        ELSE CHOOSE p \in stops : \A q \in stops : p <= q

\* strconv.underscoreOK: an underscore stands only between two digits, or
\* between a base prefix and a digit
underscoreOK(s0) ==
    LET s == IF Len(s0) >= 1 /\ s0[1] \in {"-", "+"} THEN Tail(s0) ELSE s0
        prefix == Len(s) >= 2 /\ s[1] = "0" /\ lower(s[2]) \in {"b", "o", "x"}
        hex == prefix /\ lower(s[2]) = "x"
        first == IF prefix THEN 3 ELSE 1
    IN  \A p \in first..Len(s) :
            s[p] = "_" =>
                /\ IF p = first THEN prefix ELSE isDigit(s[p-1], hex)
                /\ p < Len(s)
                /\ isDigit(s[p+1], hex)

\* strconv.readFloat, once the digits are known to run from place start to
\* before place end: the exponent and the result.  The digits are read as
\* a whole number, so each digit after the point takes one from the power
\* of 10 (four from the power of 2); the exponent stops growing at 10000.
readExponent(s, hex, start, end) ==
    LET point == firstFrom(s, start, LAMBDA p : s[p] = ".")
        fraction == Cardinality({p \in (point + 1)..(end - 1) : isDigit(s[p], hex)})
        all == SelectSeq(SubSeq(s, start, end - 1), LAMBDA c : isDigit(c, hex))
        digits == StripZeros(all)
        scale == 0 - (IF hex THEN 4 * fraction ELSE fraction)
        hasExp == end <= Len(s) /\ lower(s[end]) = (IF hex THEN "p" ELSE "e")
        esigned == end + 1 <= Len(s) /\ s[end + 1] \in {"+", "-"}
        i1 == IF esigned THEN end + 2 ELSE end + 1
        bad == [ok |-> FALSE, neg |-> FALSE, hex |-> FALSE, digits |-> << >>,
                exp |-> 0, i |-> 1]
        read(exp, i) ==
            IF (\E p \in start..(i - 1) : s[p] = "_") /\ ~underscoreOK(SubSeq(s, 1, i - 1))
            THEN bad
            ELSE [ok |-> TRUE, neg |-> s[1] = "-", hex |-> hex,
                  digits |-> [k \in 1..Len(digits) |-> digitValue(digits[k])],
                  exp |-> IF digits = << >> THEN 0 ELSE exp, i |-> i]
    IN  IF all = << >> THEN bad
        ELSE IF hasExp
        THEN IF i1 > Len(s) \/ s[i1] \notin Digits THEN bad
             ELSE Given(firstFrom(s, i1, LAMBDA p : s[p] \notin Digits \cup {"_"}), LAMBDA i2 :
                  LET z == StripZeros(SelectSeq(SubSeq(s, i1, i2 - 1), LAMBDA c : c \in Digits))
                      n == IF Len(z) < 5 THEN Len(z) ELSE 5
                      term(k) == IF k <= n
                                 THEN DigitVal(z[k]) * <<1, 10, 100, 1000, 10000>>[n - k + 1]
                                 ELSE 0
                      e == term(1) + term(2) + term(3) + term(4) + term(5)
                  IN  read(scale + (IF esigned /\ s[end + 1] = "-" THEN 0 - e ELSE e), i2))
        ELSE IF hex THEN bad
        ELSE read(scale, end)

\* strconv.readFloat: sign, base prefix, digits with at most one point,
\* exponent (e for decimal digits; p, and never left out, for hexadecimal
\* ones).  The digits end at the first character that is no digit,
\* underscore or point, and at a second point; digits are the values of the
\* digits after the leading zeros, exp the power of 10 or of 2 that they,
\* read as a whole number, are multiplied by, i the first character not
\* taken.
readFloat(s) ==
    LET signed == Len(s) >= 1 /\ s[1] \in {"+", "-"}
        i0 == IF signed THEN 2 ELSE 1
        hex == i0 + 2 <= Len(s) /\ s[i0] = "0" /\ lower(s[i0 + 1]) = "x"
        start == IF hex THEN i0 + 2 ELSE i0
    IN  Given(firstFrom(s, start, LAMBDA p :
                \/ ~(isDigit(s[p], hex) \/ s[p] \in {"_", "."})
                \/ s[p] = "." /\ \E q \in start..(p - 1) : s[q] = "."), LAMBDA end :
            readExponent(s, hex, start, end))

\* the hexadecimal digits lo..hi read, as a whole number
RECURSIVE hexMantissa(_, _, _)
hexMantissa(digits, lo, hi) ==
    IF lo = hi
    THEN NatTrim(<<digits[lo] % 10, digits[lo] \div 10>>)
    ELSE Given(<<hexMantissa(digits, lo, (lo + hi) \div 2),
                 hexMantissa(digits, (lo + hi) \div 2 + 1, hi)>>, LAMBDA x :
         Given(NatTimesPow2(x[1], 4 * (hi - (lo + hi) \div 2)), LAMBDA y :
            NatAdd(y, x[2])))

\* strconv.atof64 on what readFloat read: the float64 nearest to
\* mantissa * 10^exp (or * 2^exp for hexadecimal digits).  A number of
\* 310 or more digits before the point is above every float64, one below
\* 10^-324 is nearer to zero than to any other float64 (likewise 2^1024
\* and 2^-1075 for hexadecimal digits).
atof64(r) ==
    LET nd == Len(r.digits)
        times(a, n) == IF r.hex THEN NatTimesPow2(a, n) ELSE NatTimesPow10(a, n)
    IN  IF nd = 0 THEN Zero(r.neg)
        ELSE IF (~r.hex /\ nd + r.exp >= 310) \/ (r.hex /\ 4 * nd - 4 + r.exp >= 1024)
        THEN Inf(r.neg)
        ELSE IF (~r.hex /\ nd + r.exp <= 0 - 324) \/ (r.hex /\ 4 * nd + r.exp <= 0 - 1075)
        THEN Zero(r.neg)
        ELSE Given(IF r.hex THEN hexMantissa(r.digits, 1, nd)
                   ELSE [i \in 1..nd |-> r.digits[nd + 1 - i]], LAMBDA m :
             IF r.exp >= 0
             THEN Given(times(m, r.exp), LAMBDA n : roundFloat64(r.neg, n, <<1>>))
             ELSE Given(times(<<1>>, 0 - r.exp), LAMBDA d : roundFloat64(r.neg, m, d)))

\* json.Number.Float64 is strconv.ParseFloat(token, 64): it fails unless the
\* whole token is a special value or a number, and when the number is
\* beyond the float64s (the rounded value is an infinity)
ParsesFloat64(tok) ==
    IF special(tok).ok THEN special(tok).n = Len(tok)
    ELSE Given(readFloat(tok), LAMBDA r :
            r.ok /\ r.i = Len(tok) + 1 /\ atof64(r).class = "finite")
ParseFloat64(tok) ==
    IF special(tok).ok THEN special(tok).f
    ELSE Given(readFloat(tok), LAMBDA r : atof64(r))

RECURSIVE CoreAttribute_validate(_, _)
RECURSIVE CoreAttribute_validateSingular(_, _)

\* validateSingular, case attributeDataTypeComplex, the loop over
\* a.subAttributes from sub-attribute i on; attributes is the map built so far
RECURSIVE validateSubAttributes(_, _, _, _)
validateSubAttributes(a, complex, i, attributes) ==
    IF i > Len(a.subAttributes) THEN {Ok(Map(attributes))}
    ELSE
        LET sub == a.subAttributes[i]
            found == {k \in DOMAIN complex : EqualFold(sub.name, k)}
        IN  IF Cardinality(found) > 1
            THEN {Fail(ScimError("invalidValue",
                    "Duplicate attribute found inside of the complex attribute",
                    a.name, sub.name))}
            ELSE
                LET hit == IF found = {} THEN Null
                           ELSE complex[CHOOSE k \in found : TRUE]
                IN  UNION { IF o.kind = "ok"
                            THEN validateSubAttributes(a, complex, i + 1,
                                    Put(attributes, sub.name, o.val))
                            ELSE {o}
                          : o \in CoreAttribute_validate(sub, hit) }

\* CoreAttribute.validateSingular, were the name compared with "manager" as
\* it is written
CoreAttribute_validateSingular_exactName(a, attribute) ==
    CASE a.typ = "binary" ->
            IF attribute.t # "string"
            THEN {Fail(InvalidValue("Binary attribute not the right type", a.name))}
            ELSE IF ~MatchBase64(attribute.v)
            THEN {Fail(InvalidValue(
                    "Attribute contains illegal characters for type: binary", a.name))}
            ELSE {Ok(String(attribute.v))}
      [] a.typ = "boolean" ->
            IF attribute.t = "bool" THEN {Ok(Bool(attribute.v))}
            ELSE IF attribute.t = "string" /\ attribute.v \in DOMAIN validBooleanStrings
            THEN {Ok(Bool(validBooleanStrings[attribute.v]))}
            ELSE {Fail(InvalidValue("Boolean attribute not the right type", a.name))}
      [] a.typ = "complex" ->
            IF attribute.t # "map"
            THEN IF a.name = str_manager /\ attribute.t = "string"
                 THEN {Ok(String(attribute.v))}
                 ELSE {Fail(InvalidValue(
                        "Complex attribute does not have the right structure", a.name))}
            ELSE validateSubAttributes(a, attribute.v, 1, EmptyMap)
      [] a.typ = "dateTime" ->
            IF attribute.t # "string"
            THEN {Fail(InvalidValue(
                    "Date time attribute does not have the right type", a.name))}
            ELSE IF ~DateTimeParses(attribute.v)
            THEN {Fail(InvalidValue(
                    "Date time attribute value is not in the right format", a.name))}
            ELSE {Ok(String(attribute.v))}
      [] a.typ = "decimal" ->
            IF attribute.t = "number"
            THEN IF ParsesFloat64(attribute.v)
                 THEN {Ok(Float64(ParseFloat64(attribute.v)))}
                 ELSE {Fail(InvalidValue(
                        "Decimal attribute value failed to parse as a decimal", a.name))}
            ELSE IF attribute.t = "float64" THEN {Ok(attribute)}
            ELSE {Fail(InvalidValue(
                    "Decimal attribute value failed submitted with wrong type", a.name))}
      [] a.typ = "integer" ->
            IF attribute.t = "number"
            THEN IF ParsesInt64(attribute.v)
                 THEN {Ok(Int64(ParseInt64(attribute.v)))}
                 ELSE {Fail(InvalidValue(
                        "Integer attribute value failed to parse as an integer", a.name))}
            ELSE IF attribute.t = "int64" THEN {Ok(attribute)}
            ELSE {Fail(InvalidValue(
                    "Integer attribute value failed to parse as an integer", a.name))}
      [] a.typ = "reference" ->
            IF attribute.t # "string"
            THEN {Fail(InvalidValue(
                    "Reference attribute value is not of the right type", a.name))}
            ELSE {Ok(String(attribute.v))}
      [] a.typ = "string" ->
            IF attribute.t # "string"
            THEN {Fail(InvalidValue(
                    "String attribute value is not of the right type", a.name))}
            ELSE {Ok(String(attribute.v))}
      [] OTHER -> {Fail(InvalidValue("Unrecognized attribute type", a.name))}

\* CoreAttribute.validateSingular
CoreAttribute_validateSingular(a, attribute) ==
    CASE a.typ = "binary" ->
            IF attribute.t # "string"
            THEN {Fail(InvalidValue("Binary attribute not the right type", a.name))}
            ELSE IF ~MatchBase64(attribute.v)
            THEN {Fail(InvalidValue(
                    "Attribute contains illegal characters for type: binary", a.name))}
            ELSE {Ok(String(attribute.v))}
      [] a.typ = "boolean" ->
            IF attribute.t = "bool" THEN {Ok(Bool(attribute.v))}
            ELSE IF attribute.t = "string" /\ attribute.v \in DOMAIN validBooleanStrings
            THEN {Ok(Bool(validBooleanStrings[attribute.v]))}
            ELSE {Fail(InvalidValue("Boolean attribute not the right type", a.name))}
      [] a.typ = "complex" ->
            IF attribute.t # "map"
            THEN IF EqualFold(ToLower(a.name), str_manager) /\ attribute.t = "string"
                 THEN {Ok(String(attribute.v))}
                 ELSE {Fail(InvalidValue(
                        "Complex attribute does not have the right structure", a.name))}
            ELSE validateSubAttributes(a, attribute.v, 1, EmptyMap)
      [] a.typ = "dateTime" ->
            IF attribute.t # "string"
            THEN {Fail(InvalidValue(
                    "Date time attribute does not have the right type", a.name))}
            ELSE IF ~DateTimeParses(attribute.v)
            THEN {Fail(InvalidValue(
                    "Date time attribute value is not in the right format", a.name))}
            ELSE {Ok(String(attribute.v))}
      [] a.typ = "decimal" ->
            IF attribute.t = "number"
            THEN IF ParsesFloat64(attribute.v)
                 THEN {Ok(Float64(ParseFloat64(attribute.v)))}
                 ELSE {Fail(InvalidValue(
                        "Decimal attribute value failed to parse as a decimal", a.name))}
            ELSE IF attribute.t = "float64" THEN {Ok(attribute)}
            ELSE {Fail(InvalidValue(
                    "Decimal attribute value failed submitted with wrong type", a.name))}
      [] a.typ = "integer" ->
            IF attribute.t = "number"
            THEN IF ParsesInt64(attribute.v)
                 THEN {Ok(Int64(ParseInt64(attribute.v)))}
                 ELSE {Fail(InvalidValue(
                        "Integer attribute value failed to parse as an integer", a.name))}
            ELSE IF attribute.t = "int64" THEN {Ok(attribute)}
            ELSE {Fail(InvalidValue(
                    "Integer attribute value failed to parse as an integer", a.name))}
      [] a.typ = "reference" ->
            IF attribute.t # "string"
            THEN {Fail(InvalidValue(
                    "Reference attribute value is not of the right type", a.name))}
            ELSE {Ok(String(attribute.v))}
      [] a.typ = "string" ->
            IF attribute.t # "string"
            THEN {Fail(InvalidValue(
                    "String attribute value is not of the right type", a.name))}
            ELSE {Ok(String(attribute.v))}
      [] OTHER -> {Fail(InvalidValue("Unrecognized attribute type", a.name))}

\* validate, case []interface{}: the loop over the elements from element i
\* on; attributes holds the validated elements so far
RECURSIVE validateElements(_, _, _, _)
validateElements(a, arr, i, attributes) ==
    IF i > Len(arr) THEN {Ok(List(attributes))}
    ELSE UNION { IF o.kind = "ok"
                 THEN validateElements(a, arr, i + 1, Append(attributes, o.val))
                 ELSE {o}
               : o \in CoreAttribute_validateSingular(a, arr[i]) }

\* validate, case map[string]interface{}: the range over the keys of arr.
\* A key that matches a sub-attribute has its value validated and then
\* stored as it was given, validMap[sub.name] = v.  The order of the keys is
\* open: any failing key may be the first one met, and of two keys that
\* match one sub-attribute either may be stored last.
validateLegacyMap(a, arr) ==
    LET subs == a.subAttributes
        hits == {h \in (DOMAIN arr) \X (1..Len(subs)) : EqualFold(subs[h[2]].name, h[1])}
        outs(h) == CoreAttribute_validate(subs[h[2]], arr[h[1]])
        errs == UNION {{o \in outs(h) : o.kind # "ok"} : h \in hits}
        names == {subs[h[2]].name : h \in hits}
        given(n) == {arr[h[1]] : h \in {g \in hits : subs[g[2]].name = n}}
    IN  errs \cup
        IF \A h \in hits : \E o \in outs(h) : o.kind = "ok"
        THEN {Ok(Map(validMap)) :
                validMap \in {f \in [names -> UNION {given(n) : n \in names}] :
                                \A n \in names : f[n] \in given(n)}}
        ELSE {}

\* CoreAttribute.validate, were the readOnly check made before the check of
\* an absent value
CoreAttribute_validate_readOnlyFirst(a, attribute) ==
    IF a.mutability = "readOnly" THEN {Ok(Null)}
    ELSE IF attribute = Null
    THEN IF ~a.required THEN {Ok(Null)}
         ELSE {Fail(InvalidValue("Attribute name", a.name))}
    ELSE IF ~a.multiValued THEN CoreAttribute_validateSingular(a, attribute)
    ELSE IF attribute.t = "map"
    THEN IF a.required /\ DOMAIN attribute.v = {}
         THEN {Fail(InvalidValue("Multivalued attribute was empty", a.name))}
         ELSE validateLegacyMap(a, attribute.v)
    ELSE IF attribute.t = "list"
    THEN IF a.required /\ Len(attribute.v) = 0
         THEN {Fail(InvalidValue("Multivalued attribute was empty", a.name))}
         ELSE validateElements(a, attribute.v, 1, << >>)
    ELSE {Fail(InvalidValue("Multivalued attribute was not an array", a.name))}

\* CoreAttribute.validate, were an empty mapping let through for a required
\* multi-valued attribute
CoreAttribute_validate_emptyMapAccepted(a, attribute) ==
    IF attribute = Null
    THEN IF ~a.required THEN {Ok(Null)}
         ELSE {Fail(InvalidValue("Attribute name", a.name))}
    ELSE IF a.mutability = "readOnly" THEN {Ok(Null)}
    ELSE IF ~a.multiValued THEN CoreAttribute_validateSingular(a, attribute)
    ELSE IF attribute.t = "map"
    THEN validateLegacyMap(a, attribute.v)
    ELSE IF attribute.t = "list"
    THEN IF a.required /\ Len(attribute.v) = 0
         THEN {Fail(InvalidValue("Multivalued attribute was empty", a.name))}
         ELSE validateElements(a, attribute.v, 1, << >>)
    ELSE {Fail(InvalidValue("Multivalued attribute was not an array", a.name))}

\* CoreAttribute.validate
CoreAttribute_validate(a, attribute) ==
    IF attribute = Null
    THEN IF ~a.required THEN {Ok(Null)}
         ELSE {Fail(InvalidValue("Attribute name", a.name))}
    ELSE IF a.mutability = "readOnly" THEN {Ok(Null)}
    ELSE IF ~a.multiValued THEN CoreAttribute_validateSingular(a, attribute)
    ELSE IF attribute.t = "map"
    THEN IF a.required /\ DOMAIN attribute.v = {}
         THEN {Fail(InvalidValue("Multivalued attribute was empty", a.name))}
         ELSE validateLegacyMap(a, attribute.v)
    ELSE IF attribute.t = "list"
    THEN IF a.required /\ Len(attribute.v) = 0
         THEN {Fail(InvalidValue("Multivalued attribute was empty", a.name))}
         ELSE validateElements(a, attribute.v, 1, << >>)
    ELSE {Fail(InvalidValue("Multivalued attribute was not an array", a.name))}


(***************************************************************************)
(* schema.Schema: ID and the ordered Attributes.                           *)
(***************************************************************************)
Schema(id, attributes) == [ID |-> id, Attributes |-> attributes]

\* isImmutable, were it to let remove through
isImmutable_replaceOnly(op, attr) ==
    attr.mutability = "immutable" /\ op = str_replace

\* isImmutable
isImmutable(op, attr) ==
    attr.mutability = "immutable" /\ (op = str_replace \/ op = str_remove)

\* isReadOnly
isReadOnly(attr) == attr.mutability = "readOnly"

\* cannotBePatched
cannotBePatched(op, attr) == isImmutable(op, attr) \/ isReadOnly(attr)

\* Schema.validate, the loop over s.Attributes from attribute i on;
\* attributes is the output map built so far
RECURSIVE validateAttributes(_, _, _, _, _)
\* the loop, were the value validated before the mutability check
validateAttributes_valueFirst(s, core, checkMutability, i, attributes) ==
    IF i > Len(s.Attributes) THEN {Ok(Map(attributes))}
    ELSE
        LET attribute == s.Attributes[i]
            matching == {k \in DOMAIN core : EqualFold(attribute.name, k)}
            found == matching # {}
            hit == IF found THEN core[CHOOSE k \in matching : TRUE] ELSE Null
        IN  IF Cardinality(matching) > 1
            THEN {Fail(ScimError("duplicateAttributeFound", "Attribute name",
                                 attribute.name, str_empty))}
            ELSE UNION { IF o.kind # "ok" THEN {o}
                         ELSE IF found /\ checkMutability
                                 /\ attribute.mutability = "immutable"
                         THEN {Fail(ScimError("mutability", "Attribute name",
                                              attribute.name, str_empty))}
                         ELSE validateAttributes(s, core, checkMutability, i + 1,
                                    Put(attributes, attribute.name, o.val))
                       : o \in CoreAttribute_validate(attribute, hit) }

\* the loop, were the mutability check made before the duplicate check
validateAttributes_mutabilityFirst(s, core, checkMutability, i, attributes) ==
    IF i > Len(s.Attributes) THEN {Ok(Map(attributes))}
    ELSE
        LET attribute == s.Attributes[i]
            matching == {k \in DOMAIN core : EqualFold(attribute.name, k)}
            found == matching # {}
            hit == IF found THEN core[CHOOSE k \in matching : TRUE] ELSE Null
        IN  IF found /\ checkMutability /\ attribute.mutability = "immutable"
            THEN {Fail(ScimError("mutability", "Attribute name",
                                 attribute.name, str_empty))}
            ELSE IF Cardinality(matching) > 1
            THEN {Fail(ScimError("duplicateAttributeFound", "Attribute name",
                                 attribute.name, str_empty))}
            ELSE UNION { IF o.kind = "ok"
                         THEN validateAttributes(s, core, checkMutability, i + 1,
                                    Put(attributes, attribute.name, o.val))
                         ELSE {o}
                       : o \in CoreAttribute_validate(attribute, hit) }

validateAttributes(s, core, checkMutability, i, attributes) ==
    IF i > Len(s.Attributes) THEN {Ok(Map(attributes))}
    ELSE
        LET attribute == s.Attributes[i]
            matching == {k \in DOMAIN core : EqualFold(attribute.name, k)}
            found == matching # {}
            hit == IF found THEN core[CHOOSE k \in matching : TRUE] ELSE Null
        IN  IF Cardinality(matching) > 1
            THEN {Fail(ScimError("duplicateAttributeFound", "Attribute name",
                                 attribute.name, str_empty))}
            ELSE IF found /\ checkMutability /\ attribute.mutability = "immutable"
            THEN {Fail(ScimError("mutability", "Attribute name",
                                 attribute.name, str_empty))}
            ELSE UNION { IF o.kind = "ok"
                         THEN validateAttributes(s, core, checkMutability, i + 1,
                                    Put(attributes, attribute.name, o.val))
                         ELSE {o}
                       : o \in CoreAttribute_validate(attribute, hit) }

\* Schema.validate
Schema_validate(s, resource, checkMutability) ==
    IF resource.t # "map"
    THEN {Fail(ScimError("invalidSyntax", "", str_empty, str_empty))}
    ELSE validateAttributes(s, resource.v, checkMutability, 1, EmptyMap)

\* Schema.Validate
Schema_Validate(s, resource) == Schema_validate(s, resource, FALSE)

\* Schema.ValidateMutability
Schema_ValidateMutability(s, resource) == Schema_validate(s, resource, TRUE)

\* ValidatePatchOperation, the inner loop over s.Attributes: the indices of
\* the attributes the key k selects; attr is the first of them, nil if none
patchAttributes(s, k, isExtension) ==
    {i \in 1..Len(s.Attributes) :
        \/ EqualFold(s.Attributes[i].name, k)
        \/ isExtension /\ EqualFold(s.ID \o <<":">> \o s.Attributes[i].name, k)}

\* ValidatePatchOperation, the body of the range over operationValue for
\* one key k with value v.  With attr == nil the error text reads attr.name:
\* a nil pointer dereference, the call panics.
validatePatchKey(s, operation, k, v, isExtension) ==
    LET sel == patchAttributes(s, k, isExtension) IN
    IF sel = {} THEN {Panic}
    ELSE
        LET attr == s.Attributes[CHOOSE i \in sel : \A j \in sel : i <= j] IN
        IF cannotBePatched(operation, attr)
        THEN {Fail(InvalidValue("cannot be patched", attr.name))}
        ELSE CoreAttribute_validate(attr, v)

\* Schema.ValidatePatchOperation.  The keys are taken in an open order and
\* the first key that fails ends the call: any failing key may be that one.
Schema_ValidatePatchOperation(s, operation, operationValue, isExtension) ==
    LET keys == DOMAIN operationValue
        outs(k) == validatePatchKey(s, operation, k, operationValue[k], isExtension)
        oks(k) == {o.val : o \in {u \in outs(k) : u.kind = "ok"}}
    IN  UNION {{o \in outs(k) : o.kind # "ok"} : k \in keys}
        \cup
        IF \A k \in keys : oks(k) # {}
        THEN {Ok(Map(value)) :
                value \in {f \in [keys -> UNION {oks(k) : k \in keys}] :
                            \A k \in keys : f[k] \in oks(k)}}
        ELSE {}

\* Schema.ValidatePatchOperationValue
Schema_ValidatePatchOperationValue(s, operation, operationValue) ==
    Schema_ValidatePatchOperation(s, operation, operationValue, FALSE)

(***************************************************************************)
(* The configured ResourceType t: a base schema, a static extension and an *)
(* extension whose schema the SchemaLoader supplies per request.           *)
(***************************************************************************)
UserSchema ==
    Schema(str_urnU, <<
        SimpleCoreAttribute(str_userName, "string", FALSE, "readWrite", FALSE),
        SimpleCoreAttribute(str_active, "boolean", FALSE, "readWrite", FALSE),
        SimpleCoreAttribute(str_id, "string", FALSE, "readOnly", FALSE),
        ComplexCoreAttribute(str_name, FALSE, "readWrite", FALSE, <<
            SimpleCoreAttribute(str_givenName, "string", FALSE, "readWrite", FALSE),
            SimpleCoreAttribute(str_formatted, "string", FALSE, "readOnly", FALSE) >>),
        ComplexCoreAttribute(str_emails, TRUE, "readWrite", FALSE, <<
            SimpleCoreAttribute(str_value, "string", FALSE, "readWrite", FALSE),
            SimpleCoreAttribute(str_primary, "boolean", FALSE, "readWrite", FALSE) >>),
        SimpleCoreAttribute(str_code, "string", FALSE, "immutable", FALSE),
        SimpleCoreAttribute(str_password, "string", FALSE, "writeOnly", FALSE) >>)

EnterpriseSchema ==
    Schema(str_urnE, <<
        ComplexCoreAttribute(str_manager, FALSE, "readWrite", FALSE, <<
            SimpleCoreAttribute(str_value, "string", FALSE, "readWrite", FALSE) >>),
        SimpleCoreAttribute(str_grade, "integer", FALSE, "readWrite", TRUE) >>)

\* what SchemaLoader.LoadSchema(r) returns for the dynamic extension
LoadedSchema ==
    Schema(str_urnD, <<
        SimpleCoreAttribute(str_costCenter, "decimal", FALSE, "readWrite", FALSE) >>)

\* SchemaExtension
SchemaExtension(schema, required, loadDynamically) ==
    [Schema |-> schema, Required |-> required, LoadDynamically |-> loadDynamically]

\* the ResourceType under test
t ==
    [Schema |-> UserSchema,
     SchemaExtensions |-> <<
        SchemaExtension(EnterpriseSchema, FALSE, FALSE),
        SchemaExtension(Schema(str_urnD, << >>), FALSE, TRUE) >>]

\* SchemaLoader.LoadSchema
LoadSchema(e) == LoadedSchema

\* ResourceType.getSchemaExtensions
getSchemaExtensions(rt) ==
    [i \in 1..Len(rt.SchemaExtensions) |->
        IF rt.SchemaExtensions[i].LoadDynamically
        THEN LoadSchema(rt.SchemaExtensions[i])
        ELSE rt.SchemaExtensions[i].Schema]

\* ResourceType.schemaWithCommon: the base attributes and then externalId
schemaWithCommon(rt) ==
    Schema(rt.Schema.ID,
           Append(rt.Schema.Attributes,
                  SimpleCoreAttribute(str_externalId, "string", FALSE, "readWrite", FALSE)))


\* Server: the resource types it holds
Server(resourceTypes) == [ResourceTypes |-> resourceTypes]

\* the places the loops of getSchema and getSchemas come by, in their
\* order: <<k, 0>> is the schema of resource type k, <<k, i>> its
\* extension i
RECURSIVE serverPlaces(_, _)
serverPlaces(s, k) ==
    IF k > Len(s.ResourceTypes) THEN << >>
    ELSE [j \in 1..(1 + Len(s.ResourceTypes[k].SchemaExtensions)) |-> <<k, j - 1>>]
         \o serverPlaces(s, k + 1)
\* resourceType.Schema.ID, extension.Schema.ID at a place
serverID(s, p) ==
    IF p[2] = 0 THEN s.ResourceTypes[p[1]].Schema.ID
    ELSE s.ResourceTypes[p[1]].SchemaExtensions[p[2]].Schema.ID

\* Server.getSchema(id, r): the schema of the first place whose ID is id,
\* from the SchemaLoader when the place is an extension that loads
\* dynamically, and the zero Schema when no place has the ID; with it the
\* calls of LoadSchema made, per extension
getSchema(s, id) ==
    LET none == [i \in 1..Len(t.SchemaExtensions) |-> 0]
        places == serverPlaces(s, 1)
        hits == {n \in 1..Len(places) : serverID(s, places[n]) = id}
    IN  IF hits = {} THEN [out |-> Schema(str_empty, << >>), loads |-> none]
        ELSE LET p == places[CHOOSE n \in hits : \A m \in hits : n <= m]
                 resourceType == s.ResourceTypes[p[1]]
             IN  IF p[2] = 0 THEN [out |-> resourceType.Schema, loads |-> none]
                 ELSE LET extension == resourceType.SchemaExtensions[p[2]]
                      IN  IF extension.LoadDynamically
                          THEN [out |-> LoadSchema(extension),
                                loads |-> [none EXCEPT ![p[2]] = 1]]
                          ELSE [out |-> extension.Schema, loads |-> none]

\* Server.getSchemas(r): the schemas of all places in order, a place whose
\* ID an earlier place has left out (ids is appended to at every place,
\* and contains(ids, id) is membership), the schema of an extension that
\* loads dynamically taken from its SchemaLoader; with them the calls of
\* LoadSchema made, per extension
getSchemas(s) ==
    LET places == serverPlaces(s, 1)
        kept == SelectSeq([n \in 1..Len(places) |-> n], LAMBDA n :
                    \A m \in 1..(n - 1) :
                        serverID(s, places[m]) # serverID(s, places[n]))
        dynamic(p) == /\ p[2] > 0
                      /\ s.ResourceTypes[p[1]].SchemaExtensions[p[2]].LoadDynamically
    IN  [out |-> [j \in 1..Len(kept) |->
                    LET p == places[kept[j]] IN
                    IF p[2] = 0 THEN s.ResourceTypes[p[1]].Schema
                    ELSE IF dynamic(p)
                    THEN LoadSchema(s.ResourceTypes[p[1]].SchemaExtensions[p[2]])
                    ELSE s.ResourceTypes[p[1]].SchemaExtensions[p[2]].Schema],
         loads |-> [i \in 1..Len(t.SchemaExtensions) |->
                    Cardinality({j \in 1..Len(kept) :
                        places[kept[j]][2] = i /\ dynamic(places[kept[j]])})]]

\* the externalId attribute schemaWithCommon builds
externalID == SimpleCoreAttribute(str_externalId, "string", FALSE, "readWrite", FALSE)

\* the zero CoreAttribute, what an unused element of an array holds
ZeroAttribute == CoreAttribute(str_empty, "", FALSE, "", FALSE, << >>)

\* t.Schema.Attributes in memory: a slice of length len(t.Schema.Attributes)
\* over an array of that many elements and spare more (the capacity is
\* the length plus spare)
ConfiguredArray(spare) == t.Schema.Attributes \o [i \in 1..spare |-> ZeroAttribute]

\* append(s, x) for a slice s of length n over the array arr: with capacity
\* left it stores x in element n + 1 of arr, the array s shares with
\* every copy of the slice; with none it copies into a new array
appendInPlace(arr, n) == n < Len(arr)
appendArray(arr, n, x) ==
    IF appendInPlace(arr, n) THEN [arr EXCEPT ![n + 1] = x] ELSE arr
appendSlice(arr, n, x) ==
    IF appendInPlace(arr, n) THEN SubSeq(appendArray(arr, n, x), 1, n + 1)
    ELSE Append(SubSeq(arr, 1, n), x)

\* schemaWithCommon, s.Attributes = append(s.Attributes, externalID) with
\* s := t.Schema a copy of the slice header: the array of t.Schema.Attributes
\* after it, and the schema s it returns
schemaWithCommonArray(rt, arr) ==
    appendArray(arr, Len(rt.Schema.Attributes), externalID)
schemaWithCommonSchema(rt, arr) ==
    Schema(rt.Schema.ID, appendSlice(arr, Len(rt.Schema.Attributes), externalID))

\* ResourceType.validate, the loop over t.SchemaExtensions, were a missing
\* payload skipped for a required extension too
RECURSIVE validateExtensions_requiredSkipped(_, _, _, _, _)
validateExtensions_requiredSkipped(rt, m, i, attributes, loaded) ==
    IF i > Len(rt.SchemaExtensions)
    THEN {[out |-> Ok(Map(attributes)), loads |-> loaded]}
    ELSE
        LET extension == rt.SchemaExtensions[i]
            extensionField == Get(m, extension.Schema.ID)
        IN  IF extensionField = Null
            THEN validateExtensions_requiredSkipped(rt, m, i + 1, attributes, loaded)
            ELSE
                LET s == IF extension.LoadDynamically THEN LoadSchema(extension)
                         ELSE extension.Schema
                    called == [j \in DOMAIN loaded |->
                                IF j = i /\ extension.LoadDynamically
                                THEN loaded[j] + 1 ELSE loaded[j]]
                IN  UNION { IF o.kind = "ok"
                            THEN validateExtensions_requiredSkipped(rt, m, i + 1,
                                    Put(attributes, extension.Schema.ID, o.val),
                                    called)
                            ELSE {[out |-> o, loads |-> called]}
                          : o \in Schema_Validate(s, extensionField) }

\* ResourceType.validate, the loop over t.SchemaExtensions from extension i
\* on: attributes is the output so far, loaded the calls of LoadSchema made
\* so far, per extension.  Each result is what is returned together with
\* the calls made.
RECURSIVE validateExtensions(_, _, _, _, _)
validateExtensions(rt, m, i, attributes, loaded) ==
    IF i > Len(rt.SchemaExtensions)
    THEN {[out |-> Ok(Map(attributes)), loads |-> loaded]}
    ELSE
        LET extension == rt.SchemaExtensions[i]
            extensionField == Get(m, extension.Schema.ID)
        IN  IF extensionField = Null
            THEN IF extension.Required
                 THEN {[out |-> Fail(ScimError("invalidValue", "Missing extension name",
                                               extension.Schema.ID, str_empty)),
                        loads |-> loaded]}
                 ELSE validateExtensions(rt, m, i + 1, attributes, loaded)
            ELSE
                LET s == IF extension.LoadDynamically THEN LoadSchema(extension)
                         ELSE extension.Schema
                    called == [j \in DOMAIN loaded |->
                                IF j = i /\ extension.LoadDynamically
                                THEN loaded[j] + 1 ELSE loaded[j]]
                IN  UNION { IF o.kind = "ok"
                            THEN validateExtensions(rt, m, i + 1,
                                    Put(attributes, extension.Schema.ID, o.val),
                                    called)
                            ELSE {[out |-> o, loads |-> called]}
                          : o \in Schema_Validate(s, extensionField) }

\* ResourceType.validate(raw, method, r).  raw is written by whether it
\* decodes into a map and the map it decodes to.
ResourceType_validate(rt, raw) ==
    LET none == [i \in 1..Len(rt.SchemaExtensions) |-> 0] IN
    IF ~raw.decodes
    THEN {[out |-> Fail(ScimError("invalidSyntax", "", str_empty, str_empty)),
           loads |-> none]}
    ELSE UNION { IF o.kind = "ok"
                 THEN validateExtensions(rt, raw.m, 1, o.val.v, none)
                 ELSE {[out |-> o, loads |-> none]}
               : o \in Schema_Validate(schemaWithCommon(rt), Map(raw.m)) }


(***************************************************************************)
(* PATCH paths.  The text of a path is parsed by filter.ParsePath of the   *)
(* filter-parser library; a path is written here by what that parse finds: *)
(* text is "empty" for "", "malformed" for a text the grammar rejects and  *)
(* "path" for  [uri:]attr[.sub][[filter ...]][.fsub] .                     *)
(***************************************************************************)
RawPath(text, uri, attr, sub, filter, fsub) ==
    [text |-> text, uri |-> uri, attr |-> attr, sub |-> sub,
     filter |-> filter, fsub |-> fsub]

\* filter.Path as the parser returns it; a nil *string is the empty string
Path(raw) ==
    [AttributePath |-> [URI |-> raw.uri, AttributeName |-> raw.attr,
                        SubAttribute |-> raw.sub],
     ValueExpression |-> raw.filter,
     SubAttribute |-> raw.fsub]

\* op.Path == nil
NoPath == [nil |-> TRUE]

\* Attributes.ContainsAttribute: the attributes of the list with that name
ContainsAttribute(as, name) ==
    {i \in 1..Len(as) : EqualFold(name, as[i].name)}

\* filter.NewPathValidator: err # nil exactly when the text does not parse
NewPathValidatorFails(raw) == raw.text # "path"

\* PathValidator.validatePath against one schema: the URI, when given, is
\* the schema's ID; the attribute is one of the schema; the sub-attribute,
\* the attribute the value filter tests and the sub-attribute after the
\* filter are sub-attributes of it
validatePath(path, ref) ==
    LET uri == path.AttributePath.URI
        hit == ContainsAttribute(ref.Attributes, path.AttributePath.AttributeName)
        subs == ref.Attributes[CHOOSE i \in hit : \A j \in hit : i <= j].subAttributes
    IN  /\ uri = str_empty \/ uri = ref.ID
        /\ hit # {}
        /\ \A n \in {path.AttributePath.SubAttribute, path.ValueExpression,
                     path.SubAttribute} \ {str_empty} :
                ContainsAttribute(subs, n) # {}

\* PathValidator.Validate: the base schema or one of the extensions accepts
PathValidates(path, schema, extensions) ==
    \/ validatePath(path, schema)
    \/ \E i \in 1..Len(extensions) : validatePath(path, extensions[i])

(***************************************************************************)
(* ResourceType: PATCH.                                                    *)
(***************************************************************************)
\* PatchOperation
PatchOperation(op, path, value) == [Op |-> op, Path |-> path, Value |-> value]

\* PatchRequest
PatchRequest(schemas, operations) == [Schemas |-> schemas, Operations |-> operations]

\* the sub-attribute a resolved path targets: `emails.value` or
\* `emails[type eq "work"].value`
subAttributeNameOf(path) ==
    IF path.AttributePath.SubAttribute = str_empty
    THEN path.SubAttribute
    ELSE path.AttributePath.SubAttribute

\* validateOperationValue: the mapValue built from op.Value
mapValueOf(op) ==
    LET attributeName == op.Path.AttributePath.AttributeName
        subAttributeName == subAttributeNameOf(op.Path)
    IN  IF op.Value.t = "map" THEN op.Value.v
        ELSE IF subAttributeName = str_empty
        THEN Put(EmptyMap, attributeName, op.Value)
        ELSE Put(EmptyMap, attributeName,
                 Map(Put(EmptyMap, subAttributeName, op.Value)))

\* ResourceType.validateOperationValue
validateOperationValue(rt, op) ==
    LET id == op.Path.AttributePath.URI
        exts == {i \in 1..Len(rt.SchemaExtensions) :
                    EqualFold(id, rt.SchemaExtensions[i].Schema.ID)}
    IN  IF op.Path.AttributePath.AttributeName # str_empty /\ id # str_empty
           /\ exts # {}
        THEN LET ext == rt.SchemaExtensions[CHOOSE i \in exts : \A j \in exts : i <= j]
             IN  Schema_ValidatePatchOperation(
                    IF ext.LoadDynamically THEN LoadSchema(ext) ELSE ext.Schema,
                    op.Op, mapValueOf(op), TRUE)
        ELSE Schema_ValidatePatchOperationValue(schemaWithCommon(rt), op.Op,
                                                mapValueOf(op))

\* validatePatch, the lines that set op.Value from the validated map val
coercedValue(op, val) ==
    LET held == Get(val, op.Path.AttributePath.AttributeName) IN
    IF op.Path.AttributePath.SubAttribute = str_empty
    THEN IF op.Path.SubAttribute = str_empty
         THEN held
         ELSE IF held.t = "map" THEN Get(held.v, op.Path.SubAttribute)
         ELSE op.Value
    ELSE IF held.t = "map" THEN Get(held.v, op.Path.AttributePath.SubAttribute)
    ELSE op.Value

\* the errors validatePatch builds
PatchError(scimType, msg, index, cause) ==
    [scimType |-> scimType, msg |-> msg, index |-> index, cause |-> cause]
\* (PatchRequest{}, &err)
PatchFail(e) == [kind |-> "err", val |-> PatchRequest(<< >>, << >>), err |-> e]
\* (patchReq, nil)
PatchOk(pr) == [kind |-> "ok", val |-> pr]

\* the switch, were it on the verb as written
verbAndPathError_verbAsWritten(v, index) ==
    LET verb == v.Op
        err == NewPathValidatorFails(v.Path)
    IN  IF verb = str_add \/ verb = str_replace
        THEN IF v.Path.text # "empty" /\ err
             THEN {PatchError("invalidPath", "has failed validation", index + 1,
                              [resolver |-> "NewPathValidator"])}
             ELSE {}
        ELSE IF verb = str_remove
        THEN IF err
             THEN {PatchError("invalidPath", "has failed validation", index + 1,
                              [resolver |-> "NewPathValidator"])}
             ELSE {}
        ELSE {PatchError("invalidFilter", "has an unrecognized operation type",
                         index + 1, [resolver |-> "none"])}

\* the switch, were add and replace to refuse the empty path as remove does
verbAndPathError_emptyPathRefused(v, index) ==
    LET verb == ToLower(v.Op)
        err == NewPathValidatorFails(v.Path)
    IN  IF verb = str_add \/ verb = str_replace \/ verb = str_remove
        THEN IF err
             THEN {PatchError("invalidPath", "has failed validation", index + 1,
                              [resolver |-> "NewPathValidator"])}
             ELSE {}
        ELSE {PatchError("invalidFilter", "has an unrecognized operation type",
                         index + 1, [resolver |-> "none"])}

\* whether the switch on the lower-cased verb returns, and with what
verbAndPathError(v, index) ==
    LET verb == ToLower(v.Op)
        err == NewPathValidatorFails(v.Path)
    IN  IF verb = str_add \/ verb = str_replace
        THEN IF v.Path.text # "empty" /\ err
             THEN {PatchError("invalidPath", "has failed validation", index + 1,
                              [resolver |-> "NewPathValidator"])}
             ELSE {}
        ELSE IF verb = str_remove
        THEN IF err
             THEN {PatchError("invalidPath", "has failed validation", index + 1,
                              [resolver |-> "NewPathValidator"])}
             ELSE {}
        ELSE {PatchError("invalidFilter", "has an unrecognized operation type",
                         index + 1, [resolver |-> "none"])}

\* the append, were it to put the operation first
appendOperation_first(pr, op) == PatchRequest(pr.Schemas, <<op>> \o pr.Operations)

\* one pass of the loop gets as far as validateOperationValue: the verb is
\* known, the path parses and the validator accepts it
reachesValidation(rt, v) ==
    /\ verbAndPathError(v, 0) = {}
    /\ ~NewPathValidatorFails(v.Path)
    /\ PathValidates(Path(v.Path), schemaWithCommon(rt), getSchemaExtensions(rt))

\* getSchemaExtensions, were it to call no SchemaLoader
enumerationLoads_notCalled(rt) ==
    [i \in 1..Len(rt.SchemaExtensions) |-> 0]

\* getSchemaExtensions: the calls of LoadSchema it makes, per extension
enumerationLoads(rt) ==
    [i \in 1..Len(rt.SchemaExtensions) |->
        IF rt.SchemaExtensions[i].LoadDynamically THEN 1 ELSE 0]

\* validateOperationValue: the calls of LoadSchema it makes, per extension
validationLoads(rt, op) ==
    LET id == op.Path.AttributePath.URI
        exts == {i \in 1..Len(rt.SchemaExtensions) :
                    EqualFold(id, rt.SchemaExtensions[i].Schema.ID)}
    IN  [i \in 1..Len(rt.SchemaExtensions) |->
            IF /\ op.Path.AttributePath.AttributeName # str_empty
               /\ id # str_empty
               /\ i \in exts
               /\ \A j \in exts : i <= j
               /\ rt.SchemaExtensions[i].LoadDynamically
            THEN 1 ELSE 0]

\* validatePatch, one pass of the loop for operation v: the calls of
\* LoadSchema it makes, per extension
patchLoads(rt, v) ==
    [i \in 1..Len(rt.SchemaExtensions) |->
        enumerationLoads(rt)[i] +
        IF reachesValidation(rt, v)
        THEN validationLoads(rt, PatchOperation(ToLower(v.Op), Path(v.Path), v.Value))[i]
        ELSE 0]

\* validatePatch, one pass of the loop for operation v: the mapValue
\* validateOperationValue builds, if the pass gets there
patchMapValue(rt, v) ==
    IF reachesValidation(rt, v)
    THEN Map(mapValueOf(PatchOperation(ToLower(v.Op), Path(v.Path), v.Value)))
    ELSE [none |-> TRUE]

\* patchReq.Operations = append(patchReq.Operations, op)
appendOperation(pr, op) == PatchRequest(pr.Schemas, Append(pr.Operations, op))

\* validatePatch, one pass of the loop over req.Operations, for operation v
\* at (0-based) index: the results it can have, each either
\*   [kind |-> "err", err |-> e]   the request is aborted with e,
\*   [kind |-> "panic"]            the call panics, or
\*   [kind |-> "ok", val |-> op]   op is appended to patchReq.Operations
patchOperation(rt, v, index) ==
    LET early == verbAndPathError(v, index)
        op == PatchOperation(ToLower(v.Op), NoPath, v.Value)
    IN  IF early # {} THEN {Fail(e) : e \in early}
        ELSE IF NewPathValidatorFails(v.Path) THEN {Ok(op)}
        ELSE IF ~PathValidates(Path(v.Path), schemaWithCommon(rt),
                               getSchemaExtensions(rt))
        THEN {Fail(PatchError("invalidPath", "has failed validation", index + 1,
                              [resolver |-> "Validate"]))}
        ELSE
            LET resolved == PatchOperation(op.Op, Path(v.Path), op.Value) IN
            { IF o.kind = "panic" THEN Panic
              ELSE IF o.kind = "err"
              THEN Fail(PatchError("invalidValue", "has failed validation",
                                   index + 1, o.err))
              ELSE Ok(PatchOperation(resolved.Op, resolved.Path,
                                     coercedValue(resolved, o.val.v)))
            : o \in validateOperationValue(rt, resolved) }


(***************************************************************************)
(* The inputs the calls are made with.                                     *)
(***************************************************************************)
One(k, x) == Map(Put(EmptyMap, k, x))
Two(k1, x1, k2, x2) == Map(Put(Put(EmptyMap, k1, x1), k2, x2))

\* the values documents and value maps give the key k: values of the
\* attribute's type, values of another type or shape, and null.  These are
\* Go values handed to the exported Schema.Validate and
\* ValidatePatchOperation, where a json.Number is any string: grade is
\* also given one with leading zeros
ValuesOf(k) ==
    IF k \in {str_userName, str_code}
    THEN {Null, String(str_x), Number(str_7)}
    ELSE IF k = str_uLongSerName
    THEN {String(str_y)}
    ELSE IF k = str_active
    THEN {Null, Bool(TRUE), String(str_true), String(str_x)}
    ELSE IF k \in {str_id, str_name}
    THEN {String(str_x),
          Two(str_givenName, String(str_x), str_formatted, String(str_y))}
    ELSE IF k = str_emails
    THEN {String(str_x),
          List(<<Two(str_value, String(str_x), str_primary, String(str_true))>>),
          Two(str_value, String(str_x), str_primary, String(str_maybe))}
    ELSE IF k \in {str_manager, str_urnEManager}
    THEN {String(str_x), One(str_value, String(str_x))}
    ELSE IF k = str_grade
    THEN {Null, Number(str_7), Number(str_zeros1), String(str_x)}
    ELSE IF k = str_costCenter
    THEN {Number(str_7), Number(str_1p5), String(str_x)}
    ELSE {String(str_x)}

\* the maps with at most n of the keys, each key k holding one of ValuesOf(k)
RECURSIVE Mappings(_, _)
Mappings(keys, n) ==
    IF keys = {} \/ n = 0 THEN {EmptyMap}
    ELSE LET k == CHOOSE x \in keys : TRUE
         IN  Mappings(keys \ {k}, n) \cup
             {Put(m, k, x) : m \in Mappings(keys \ {k}, n - 1), x \in ValuesOf(k)}

\* the schemas Validate and ValidateMutability are called on, and the keys
\* documents for each are written with (nick is no attribute of any)
ValidatedSchemas == {schemaWithCommon(t), EnterpriseSchema}
KeysFor(s) ==
    IF s.ID = str_urnU
    THEN {str_userName, str_USERNAME, str_uLongSerName, str_active, str_id,
          str_ID, str_name, str_emails, str_code, str_CODE, str_nick}
    ELSE {str_manager, str_grade, str_nick}
Resources(s) ==
    {Map(m) : m \in Mappings(KeysFor(s), MaxKeys)} \cup {String(str_x)}

\* the schemas, verbs and value maps ValidatePatchOperation is called with
PatchedSchemas == {schemaWithCommon(t), EnterpriseSchema, LoadedSchema}
PatchVerbs == {str_add, str_replace, str_remove}
PatchKeysFor(s) ==
    IF s.ID = str_urnU
    THEN {str_active, str_ACTIVE, str_id, str_name, str_emails, str_code,
          str_password, str_nick}
    ELSE IF s.ID = str_urnE
    THEN {str_manager, str_urnEManager, str_grade, str_nick}
    ELSE {str_costCenter, str_nick}
OperationValues(s) == Mappings(PatchKeysFor(s), MaxKeys)

\* the paths PATCH operations are written with
RawPaths ==
    {RawPath("empty", str_empty, str_empty, str_empty, str_empty, str_empty),
     RawPath("malformed", str_empty, str_empty, str_empty, str_empty, str_empty),
     RawPath("path", str_empty, str_nick, str_empty, str_empty, str_empty),
     RawPath("path", str_empty, str_active, str_empty, str_empty, str_empty),
     RawPath("path", str_empty, str_ACTIVE, str_empty, str_empty, str_empty),
     RawPath("path", str_empty, str_id, str_empty, str_empty, str_empty),
     RawPath("path", str_empty, str_code, str_empty, str_empty, str_empty),
     RawPath("path", str_empty, str_name, str_empty, str_empty, str_empty),
     RawPath("path", str_empty, str_name, str_givenName, str_empty, str_empty),
     RawPath("path", str_empty, str_name, str_GIVENNAME, str_empty, str_empty),
     RawPath("path", str_empty, str_name, str_formatted, str_empty, str_empty),
     RawPath("path", str_empty, str_emails, str_empty, str_empty, str_empty),
     RawPath("path", str_empty, str_emails, str_primary, str_empty, str_empty),
     RawPath("path", str_empty, str_emails, str_empty, str_value, str_primary),
     RawPath("path", str_urnE, str_manager, str_empty, str_empty, str_empty),
     RawPath("path", str_empty, str_manager, str_empty, str_empty, str_empty),
     RawPath("path", str_urnD, str_costCenter, str_empty, str_empty, str_empty)}

\* the verbs and values PATCH operations are written with
Verbs == {str_add, str_REPLACE, str_remove, str_move}
OperationInputValues ==
    {Null, Bool(TRUE), String(str_true), String(str_x), Number(str_1p5),
     One(str_givenName, String(str_x)),
     One(str_active, String(str_true))}

\* an operation of the decoded request body: {Op, Path string; Value}
RequestOperation(op, path, value) == [Op |-> op, Path |-> path, Value |-> value]
RequestOperations ==
    {RequestOperation(o, p, x) : o \in Verbs, p \in RawPaths, x \in OperationInputValues}

\* operations that fill the other places of a request: two that succeed
\* and one that fails
Fillers ==
    {RequestOperation(str_add,
        RawPath("path", str_empty, str_active, str_empty, str_empty, str_empty),
        String(str_true)),
     RequestOperation(str_REPLACE,
        RawPath("path", str_empty, str_name, str_givenName, str_empty, str_empty),
        String(str_x)),
     RequestOperation(str_move,
        RawPath("path", str_empty, str_active, str_empty, str_empty, str_empty),
        Bool(TRUE))}

str_PatchOp == <<"P","a","t","c","h","O","p">>
str_Manager == <<"M","a","n","a","g","e","r">>
str_MANAGER == <<"M","A","N","A","G","E","R">>
str_fAlSe == <<"f","A","l","S","e">>
str_VALUE == <<"V","A","L","U","E">>

\* the resource types ResourceType.validate is called on: t with each of
\* its extensions required or not
ResourceTypes ==
    {[Schema |-> t.Schema,
      SchemaExtensions |->
        [i \in 1..Len(t.SchemaExtensions) |->
            SchemaExtension(t.SchemaExtensions[i].Schema, required[i],
                            t.SchemaExtensions[i].LoadDynamically)]]
     : required \in [1..Len(t.SchemaExtensions) -> BOOLEAN]}

\* the bodies it is called with: one that does not decode, and documents
\* of base attributes with, under the URI of each extension, no payload,
\* null, payloads that validate (numbers written plainly, with a sign, with
\* an exponent), payloads that do not, or no map.  The numbers are tokens
\* the decoder takes: a token with leading zeros is no JSON number, and a
\* body that holds one does not decode
Absent == [absent |-> TRUE]
BaseDocuments ==
    {EmptyMap,
     One(str_userName, String(str_x)).v,
     One(str_userName, Number(str_7)).v,
     Two(str_active, String(str_true), str_nick, String(str_x)).v}
PayloadsOf(id) ==
    IF id = str_urnE
    THEN {Absent, Null, String(str_x), Map(EmptyMap),
          One(str_grade, Number(str_7)),
          One(str_grade, Number(str_1p5)),
          Two(str_grade, Number(str_7), str_manager, String(str_x)),
          One(str_grade, String(str_x))}
    ELSE {Absent, Null,
          One(str_costCenter, Number(str_1p5)),
          One(str_costCenter, Number(str_neg1p5)),
          One(str_costCenter, Number(str_1e3)),
          One(str_costCenter, String(str_x))}
WithPayload(m, id, payload) == IF payload = Absent THEN m ELSE Put(m, id, payload)
RawResource(decodes, m) == [decodes |-> decodes, m |-> m]

\* the attributes CoreAttribute.validate and validateSingular are called on:
\* a string, a boolean, complex attributes named name, manager, Manager and
\* MANAGER, a multi-valued complex attribute and a multi-valued string, each
\* with every mutability, required and not
Mutabilities == {"readWrite", "readOnly", "immutable", "writeOnly"}
AttributeShapes(m, r) ==
    {SimpleCoreAttribute(str_userName, "string", FALSE, m, r),
     SimpleCoreAttribute(str_active, "boolean", FALSE, m, r),
     SimpleCoreAttribute(str_nick, "string", TRUE, m, r),
     ComplexCoreAttribute(str_emails, TRUE, m, r,
        <<SimpleCoreAttribute(str_value, "string", FALSE, "readWrite", FALSE),
          SimpleCoreAttribute(str_primary, "boolean", FALSE, "readWrite", FALSE),
          SimpleCoreAttribute(str_id, "string", FALSE, "readOnly", FALSE)>>)}
    \cup
    {ComplexCoreAttribute(n, FALSE, m, r,
        <<SimpleCoreAttribute(str_value, "string", FALSE, "readWrite", FALSE)>>)
     : n \in {str_name, str_manager, str_Manager, str_MANAGER}}
ValidatedAttributes == UNION {AttributeShapes(m, r) : m \in Mutabilities, r \in BOOLEAN}

\* the values they are called with: null, scalars, the spellings of the
\* booleans, empty and non-empty lists and maps with valid and invalid
\* elements and keys
AttributeValues ==
    {Null, Bool(TRUE), Bool(FALSE), Number(str_7),
     String(str_true), String(str_True), String(str_TRUE), String(str_false),
     String(str_False), String(str_fAlSe), String(str_maybe), String(str_x),
     Map(EmptyMap), List(<< >>),
     One(str_value, String(str_x)),
     One(str_VALUE, String(str_x)),
     One(str_id, String(str_x)),
     One(str_nick, String(str_x)),
     One(str_primary, String(str_true)),
     Two(str_value, String(str_x), str_primary, String(str_true)),
     Two(str_value, Number(str_7), str_primary, String(str_maybe)),
     Two(str_value, String(str_x), str_VALUE, String(str_y)),
     List(<<String(str_x)>>),
     List(<<String(str_x), Number(str_7)>>),
     List(<<One(str_value, String(str_x))>>),
     List(<<Two(str_value, String(str_x), str_primary, String(str_true)),
            One(str_id, String(str_x))>>),
     List(<<One(str_value, String(str_x)), String(str_x)>>)}

\* a request body: whether it can be read, whether what is read decodes,
\* and what it decodes to
Body(readable, decodes, schemas, operations) ==
    [readable |-> readable, decodes |-> decodes,
     Schemas |-> schemas, Operations |-> operations]

(***************************************************************************)
(* State.                                                                  *)
(***************************************************************************)
VARIABLES
    fn,         \* the call made last
    arg,        \* its arguments
    ret,        \* what it returned; NotReturned while validatePatch runs
    state,      \* Idle, or the state of validatePatch
    index,      \* validatePatch: the operations the loop has taken up
    patchReq,   \* validatePatch: the local patchReq the loop appends to
    loads,      \* per extension of t: the calls of its SchemaLoader so far
    mapValue,   \* validatePatch: the mapValue validateOperationValue built
                \* in the last pass of the loop, NoArg if it built none
    array,      \* the array under the slice t.Schema.Attributes
    calls,      \* the calls in flight at once: where each is, its input,
                \* the schema schemaWithCommon gave it, the extensions
                \* whose SchemaLoader it has called, what it returned
    raced       \* two calls in flight accessed one element of array, one
                \* of them writing

vars == <<fn, arg, ret, state, index, patchReq, loads, mapValue, array, calls, raced>>

NotReturned == [kind |-> "none"]
NoArg == [none |-> TRUE]

\* a call not made yet
NoCall == [pc |-> "idle", method |-> "none", raw |-> NoArg, s |-> NoArg,
           made |-> << >>,
           out |-> NotReturned]

\* no SchemaLoader was called
NoLoads == [i \in 1..Len(t.SchemaExtensions) |-> 0]

Init ==
    /\ fn = "none"
    /\ arg = NoArg
    /\ ret = NotReturned
    /\ state = "Idle"
    /\ index = 0
    /\ patchReq = PatchRequest(<< >>, << >>)
    /\ loads = NoLoads
    /\ mapValue = NoArg
    /\ \E spare \in 0..MaxSpare : array = ConfiguredArray(spare)
    /\ calls = [c \in 1..MaxCalls |-> NoCall]
    /\ raced = FALSE

\* a call is made on the engine at rest; what the state then holds is that
\* one call, its arguments and its result
CanCall == fn = "none" /\ \A c \in 1..MaxCalls : calls[c].pc = "idle"

\* Schema.Validate(resource)
CallValidate ==
    /\ CanCall
    /\ \E s \in ValidatedSchemas : \E resource \in Resources(s) :
        /\ fn' = "Validate"
        /\ arg' = [s |-> s.ID, resource |-> resource]
        /\ ret' \in Schema_Validate(s, resource)
        /\ state' = "Idle"
        /\ index' = 0
        /\ patchReq' = PatchRequest(<< >>, << >>)
        /\ UNCHANGED <<loads, mapValue, array, calls, raced>>

\* Schema.ValidateMutability(resource)
CallValidateMutability ==
    /\ CanCall
    /\ \E s \in ValidatedSchemas : \E resource \in Resources(s) :
        /\ fn' = "ValidateMutability"
        /\ arg' = [s |-> s.ID, resource |-> resource]
        /\ ret' \in Schema_ValidateMutability(s, resource)
        /\ state' = "Idle"
        /\ index' = 0
        /\ patchReq' = PatchRequest(<< >>, << >>)
        /\ UNCHANGED <<loads, mapValue, array, calls, raced>>

\* Schema.ValidatePatchOperation(operation, operationValue, isExtension)
CallValidatePatchOperation ==
    /\ CanCall
    /\ \E s \in PatchedSchemas : \E operation \in PatchVerbs :
       \E operationValue \in OperationValues(s) : \E isExtension \in BOOLEAN :
        /\ fn' = "ValidatePatchOperation"
        /\ arg' = [s |-> s.ID, operation |-> operation,
                   operationValue |-> operationValue, isExtension |-> isExtension]
        /\ ret' \in Schema_ValidatePatchOperation(s, operation, operationValue,
                                                  isExtension)
        /\ state' = "Idle"
        /\ index' = 0
        /\ patchReq' = PatchRequest(<< >>, << >>)
        /\ UNCHANGED <<loads, mapValue, array, calls, raced>>

\* validatePatch up to the loop, were a request with no operation let
\* through: the loop has nothing to do and patchReq is returned
DecodeBody_zeroOperationsPass(body) ==
    /\ fn' = "validatePatch"
    /\ arg' = body
    /\ index' = 0
    /\ UNCHANGED <<loads, mapValue, array, calls, raced>>
    /\ IF ~body.readable
       THEN /\ ret' = PatchFail(PatchError("invalidSyntax",
                        "Failed to read request body", 0, [resolver |-> "none"]))
            /\ state' = "Aborted"
            /\ patchReq' = PatchRequest(<< >>, << >>)
       ELSE IF ~body.decodes
       THEN /\ ret' = PatchFail(PatchError("invalidSyntax",
                        "Failed to parse request body", 0, [resolver |-> "none"]))
            /\ state' = "Aborted"
            /\ patchReq' = PatchRequest(<< >>, << >>)
       ELSE /\ patchReq' = PatchRequest(body.Schemas, << >>)
            /\ IF Len(body.Operations) < 1
               THEN ret' = PatchOk(patchReq') /\ state' = "Done"
               ELSE ret' = NotReturned /\ state' = "PerOperationLoop"

\* validatePatch up to the loop, for one body: the body is read and
\* decoded, a request with no operation is refused, patchReq is set up
DecodeBody(body) ==
    /\ fn' = "validatePatch"
    /\ arg' = body
    /\ index' = 0
    /\ UNCHANGED <<loads, mapValue, array, calls, raced>>
    /\ IF ~body.readable
       THEN /\ ret' = PatchFail(PatchError("invalidSyntax",
                        "Failed to read request body", 0, [resolver |-> "none"]))
            /\ state' = "Aborted"
            /\ patchReq' = PatchRequest(<< >>, << >>)
       ELSE IF ~body.decodes
       THEN /\ ret' = PatchFail(PatchError("invalidSyntax",
                        "Failed to parse request body", 0, [resolver |-> "none"]))
            /\ state' = "Aborted"
            /\ patchReq' = PatchRequest(<< >>, << >>)
       ELSE IF Len(body.Operations) < 1
       THEN /\ ret' = PatchFail(PatchError("invalidValue",
                        "Zero operations found in request body", 0,
                        [resolver |-> "none"]))
            /\ state' = "Aborted"
            /\ patchReq' = PatchRequest(<< >>, << >>)
       ELSE /\ ret' = NotReturned
            /\ state' = "PerOperationLoop"
            /\ patchReq' = PatchRequest(body.Schemas, << >>)

\* validatePatch is called with a body that cannot be read, with one that
\* does not decode, or with one of at most MaxOps operations: any operation
\* at one place, a filler at every other place
Decode ==
    /\ CanCall
    /\ \E n \in 0..MaxOps : \E at \in 0..n : \E v \in RequestOperations :
       \E f \in [1..n -> Fillers] :
        /\ at = 0 => n = 0
        /\ n = 0 => v = CHOOSE u \in RequestOperations : TRUE
        /\ \E readable \in (IF n = 0 THEN BOOLEAN ELSE {TRUE}) :
           \E decodes \in (IF n = 0 /\ readable THEN BOOLEAN ELSE {readable}) :
            DecodeBody(Body(readable, decodes,
                            IF decodes THEN <<str_PatchOp>> ELSE << >>,
                            [i \in 1..n |-> IF i = at THEN v ELSE f[i]]))

\* validatePatch, one pass of the loop, and the return after the last one
Operation ==
    /\ state = "PerOperationLoop"
    /\ loads' = [i \in DOMAIN loads |->
                    loads[i] + patchLoads(t, arg.Operations[index + 1])[i]]
    /\ mapValue' = patchMapValue(t, arg.Operations[index + 1])
    /\ \E o \in patchOperation(t, arg.Operations[index + 1], index) :
        /\ index' = index + 1
        /\ IF o.kind = "err"
           THEN /\ ret' = PatchFail(o.err)
                /\ state' = "Aborted"
                /\ patchReq' = patchReq
           ELSE IF o.kind = "panic"
           THEN /\ ret' = Panic
                /\ state' = "Panicked"
                /\ patchReq' = patchReq
           ELSE /\ patchReq' = appendOperation(patchReq, o.val)
                /\ IF index + 1 = Len(arg.Operations)
                   THEN ret' = PatchOk(patchReq') /\ state' = "Done"
                   ELSE ret' = NotReturned /\ state' = "PerOperationLoop"
    /\ array' = schemaWithCommonArray(t, array)
    /\ UNCHANGED <<fn, arg, calls, raced>>

\* CoreAttribute.validate(attribute)
CallAttributeValidate ==
    /\ CanCall
    /\ \E a \in ValidatedAttributes : \E attribute \in AttributeValues :
        /\ fn' = "validate"
        /\ arg' = [a |-> a, attribute |-> attribute]
        /\ ret' \in CoreAttribute_validate(a, attribute)
        /\ state' = "Idle"
        /\ index' = 0
        /\ patchReq' = PatchRequest(<< >>, << >>)
        /\ UNCHANGED <<loads, mapValue, array, calls, raced>>

\* CoreAttribute.validateSingular(attribute)
CallValidateSingular ==
    /\ CanCall
    /\ \E a \in ValidatedAttributes : \E attribute \in AttributeValues :
        /\ fn' = "validateSingular"
        /\ arg' = [a |-> a, attribute |-> attribute]
        /\ ret' \in CoreAttribute_validateSingular(a, attribute)
        /\ state' = "Idle"
        /\ index' = 0
        /\ patchReq' = PatchRequest(<< >>, << >>)
        /\ UNCHANGED <<loads, mapValue, array, calls, raced>>

\* ResourceType.validate(raw, method, r)
CallResourceValidate ==
    /\ CanCall
    /\ \E rt \in ResourceTypes : \E decodes \in BOOLEAN : \E base \in BaseDocuments :
       \E pe \in PayloadsOf(str_urnE) : \E pd \in PayloadsOf(str_urnD) :
        LET raw == RawResource(decodes,
                       WithPayload(WithPayload(base, str_urnE, pe), str_urnD, pd))
        IN  /\ ~decodes => (base = EmptyMap /\ pe = Absent /\ pd = Absent)
            /\ \E o \in ResourceType_validate(rt, raw) :
                /\ fn' = "ResourceType_validate"
                /\ arg' = [rt |-> rt, raw |-> raw]
                /\ ret' = o.out
                /\ loads' = o.loads
            /\ state' = "Idle"
            /\ index' = 0
            /\ patchReq' = PatchRequest(<< >>, << >>)
            /\ array' = IF decodes THEN schemaWithCommonArray(t, array) ELSE array
            /\ UNCHANGED <<mapValue, calls, raced>>

\* the servers getSchema and getSchemas are called on: one that holds t,
\* one that holds two resource types of the schemas of t; and the IDs
\* getSchema is asked for: the base schema's, each extension's, one no
\* schema has
Servers == {Server(<<t>>), Server(<<t, t>>)}
RequestedIDs == {str_urnU, str_urnE, str_urnD, str_x}

\* Server.getSchema(id, r)
CallGetSchema ==
    /\ CanCall
    /\ \E s \in Servers : \E id \in RequestedIDs :
        /\ fn' = "getSchema"
        /\ arg' = [s |-> s, id |-> id]
        /\ ret' = Ok(getSchema(s, id).out)
        /\ loads' = getSchema(s, id).loads
    /\ state' = "Idle"
    /\ index' = 0
    /\ patchReq' = PatchRequest(<< >>, << >>)
    /\ UNCHANGED <<mapValue, array, calls, raced>>

\* Server.getSchemas(r)
CallGetSchemas ==
    /\ CanCall
    /\ \E s \in Servers :
        /\ fn' = "getSchemas"
        /\ arg' = [s |-> s]
        /\ ret' = Ok(getSchemas(s).out)
        /\ loads' = getSchemas(s).loads
    /\ state' = "Idle"
    /\ index' = 0
    /\ patchReq' = PatchRequest(<< >>, << >>)
    /\ UNCHANGED <<mapValue, array, calls, raced>>

\* the inputs of the calls in flight at once: ResourceType.validate on a
\* document of base attributes, or on one with a payload for the dynamic
\* extension; ResourceType.validatePatch on a request of one operation, on
\* a base attribute or on an attribute of the dynamic extension
ConcurrentInputs ==
    {[method |-> "validate", raw |-> RawResource(TRUE, m)]
     : m \in BaseDocuments \cup
             {WithPayload(EmptyMap, str_urnD, One(str_costCenter, String(str_x))),
              WithPayload(EmptyMap, str_urnD, Map(EmptyMap))}}
    \cup
    {[method |-> "validatePatch", raw |-> Body(TRUE, TRUE, <<str_PatchOp>>, <<v>>)]
     : v \in Fillers \cup
             {RequestOperation(str_add,
                RawPath("path", str_urnD, str_costCenter, str_empty, str_empty, str_empty),
                String(str_x))}}

\* call d is in flight, past its first t.schemaWithCommon(): it holds a
\* schema whose Attributes it reads
InFlight(d) == calls[d].pc \in {"appended", "appendedAgain"}

\* validateOperationValue gets to its last line, t.schemaWithCommon(): the
\* pass reaches it and the path names no extension of rt
appendsAgain(rt, v) ==
    /\ reachesValidation(rt, v)
    /\ LET p == Path(v.Path).AttributePath
       IN  ~ ( /\ p.AttributeName # str_empty
               /\ p.URI # str_empty
               /\ \E i \in 1..Len(rt.SchemaExtensions) :
                       EqualFold(p.URI, rt.SchemaExtensions[i].Schema.ID) )

\* the extensions whose SchemaLoader a loop over the extensions calls, in
\* its order, given the calls it makes per extension
loadOrder(n) == SelectSeq([i \in 1..Len(n) |-> i], LAMBDA i : n[i] > 0)

\* call c, on a goroutine of its own, runs ResourceType.validate or
\* validatePatch up to the return of its first t.schemaWithCommon(): the
\* body is decoded and the append has stored externalID, in the array of
\* t.Schema.Attributes when that has capacity left.  Nothing orders the
\* accesses of two calls in flight: the store into the shared array while
\* another call is in flight is a data race.
SchemaWithCommon(c) ==
    /\ fn = "none"
    /\ calls[c].pc = "idle"
    /\ \E in \in ConcurrentInputs :
        calls' = [calls EXCEPT ![c] =
                    [pc |-> "appended", method |-> in.method, raw |-> in.raw,
                     s |-> schemaWithCommonSchema(t, array), made |-> << >>,
                     out |-> NotReturned]]
    /\ array' = schemaWithCommonArray(t, array)
    /\ raced' = ( \/ raced
                  \/ /\ appendInPlace(array, Len(t.Schema.Attributes))
                     /\ \E d \in 1..MaxCalls : d # c /\ InFlight(d) )
    /\ UNCHANGED <<fn, arg, ret, state, index, patchReq, loads, mapValue>>

\* what call c returns, with the calls of LoadSchema the rest of it makes,
\* per extension and in their order, and whether it calls schemaWithCommon
\* once more: validate calls the loaders in the order of the extensions;
\* validatePatch calls them in that order in getSchemaExtensions and then
\* the one of the extension the path names
ConcurrentResults(c) ==
    IF calls[c].method = "validate"
    THEN {[out |-> o.out, loads |-> o.loads, order |-> loadOrder(o.loads),
           again |-> FALSE]
          : o \in ResourceType_validate(t, calls[c].raw)}
    ELSE LET v == calls[c].raw.Operations[1]
             pr == PatchRequest(calls[c].raw.Schemas, << >>)
         IN  {[out |-> IF o.kind = "err" THEN PatchFail(o.err)
                       ELSE IF o.kind = "panic" THEN Panic
                       ELSE PatchOk(appendOperation(pr, o.val)),
               loads |-> patchLoads(t, v),
               order |-> loadOrder(enumerationLoads(t)) \o
                         loadOrder([i \in 1..Len(t.SchemaExtensions) |->
                                     patchLoads(t, v)[i] - enumerationLoads(t)[i]]),
               again |-> appendsAgain(t, v)]
              : o \in patchOperation(t, v, 0)}

\* call c, on its way to the result o, makes its next call of
\* SchemaLoader.LoadSchema(r), a call out to the host's loader: steps of
\* the other calls may fall before and after it
CallLoadSchema(c, o) ==
    /\ calls[c].pc = "appended"
    /\ Len(calls[c].made) < Len(o.order)
    /\ SubSeq(o.order, 1, Len(calls[c].made)) = calls[c].made
    /\ LET i == o.order[Len(calls[c].made) + 1]
       IN  /\ loads' = [loads EXCEPT ![i] = @ + 1]
           /\ calls' = [calls EXCEPT ![c].made = Append(@, i)]
    /\ UNCHANGED <<fn, arg, ret, state, index, patchReq, mapValue, array, raced>>

\* call c, a validatePatch that gets to validate the value against the
\* base schema, calls t.schemaWithCommon() once more, after the loaders
\* getSchemaExtensions calls: the append stores externalID again
SchemaWithCommonAgain(c, o) ==
    /\ calls[c].pc = "appended"
    /\ o.again
    /\ o.order = calls[c].made
    /\ calls' = [calls EXCEPT ![c].pc = "appendedAgain"]
    /\ array' = schemaWithCommonArray(t, array)
    /\ raced' = ( \/ raced
                  \/ /\ appendInPlace(array, Len(t.Schema.Attributes))
                     /\ \E d \in 1..MaxCalls : d # c /\ InFlight(d) )
    /\ UNCHANGED <<fn, arg, ret, state, index, patchReq, loads, mapValue>>

\* call c returns o: it has made its calls of LoadSchema and, where
\* validatePatch calls schemaWithCommon once more, that call; it has
\* validated with the schemas it was given, reading their Attributes
Return(c, o) ==
    /\ calls[c].pc = IF o.again THEN "appendedAgain" ELSE "appended"
    /\ o.order = calls[c].made
    /\ calls' = [calls EXCEPT ![c].pc = "returned", ![c].out = o.out]
    /\ UNCHANGED <<fn, arg, ret, state, index, patchReq, loads, mapValue,
                   array, raced>>

\* call c, in flight, takes its next step
Continue(c) ==
    /\ fn = "none"
    /\ InFlight(c)
    /\ \E o \in ConcurrentResults(c) :
        \/ CallLoadSchema(c, o)
        \/ SchemaWithCommonAgain(c, o)
        \/ Return(c, o)

\* the calls in flight at once
Concurrent == \E c \in 1..MaxCalls : SchemaWithCommon(c) \/ Continue(c)

Next ==
    \/ Concurrent
    \/ CallResourceValidate
    \/ CallGetSchema
    \/ CallGetSchemas
    \/ CallAttributeValidate
    \/ CallValidateSingular
    \/ CallValidate
    \/ CallValidateMutability
    \/ CallValidatePatchOperation
    \/ Decode
    \/ Operation

Spec == Init /\ [][Next]_vars

\* the calls of ResourceType.validate alone
ResourceNext == CallResourceValidate
ResourceSpec == Init /\ [][ResourceNext]_vars

\* calls of ResourceType.validate and validatePatch in flight at once
ConcurrentNext == Concurrent
ConcurrentSpec == Init /\ [][ConcurrentNext]_vars

\* the calls that reach a SchemaLoader: ResourceType.validate,
\* ResourceType.validatePatch, Server.getSchema and Server.getSchemas
LoaderNext ==
    CallResourceValidate \/ Decode \/ Operation \/ CallGetSchema \/ CallGetSchemas
LoaderSpec == Init /\ [][LoaderNext]_vars

\* the calls of CoreAttribute.validate and validateSingular alone
AttributeNext == CallAttributeValidate \/ CallValidateSingular
AttributeSpec == Init /\ [][AttributeNext]_vars

\* the calls of Schema.validate alone
SchemaNext == CallValidate \/ CallValidateMutability
SchemaSpec == Init /\ [][SchemaNext]_vars

\* the calls of Schema.ValidatePatchOperation alone
PatchOperationNext == CallValidatePatchOperation
PatchOperationSpec == Init /\ [][PatchOperationNext]_vars

\* the calls of ResourceType.validatePatch alone
PatchNext == Decode \/ Operation
PatchSpec == Init /\ [][PatchNext]_vars


(***************************************************************************)
(* Properties.                                                             *)
(***************************************************************************)
\* the schema a call of Validate, ValidateMutability or
\* ValidatePatchOperation was made on
SchemaOf(id) == CHOOSE s \in PatchedSchemas : s.ID = id

\* the verbs validatePatch knows
RecognizedVerbs == {str_add, str_replace, str_remove}

\* the schemas of the resource type: the base schema and the extensions
TargetSchemas ==
    {schemaWithCommon(t)} \cup
    {getSchemaExtensions(t)[i] : i \in 1..Len(t.SchemaExtensions)}

\* a path text resolves: it parses and names an attribute of the schemas
Resolves(raw) ==
    /\ ~NewPathValidatorFails(raw)
    /\ PathValidates(Path(raw), schemaWithCommon(t), getSchemaExtensions(t))

\* handling operation v at place i (1-based) of a request fails
OperationFails(v, i) == \E o \in patchOperation(t, v, i - 1) : o.kind # "ok"

\* validatePatch is past operation k of the request: it handled it and went
\* on, or it ended on it
Handled(k) == fn = "validatePatch" /\ index >= k /\ k >= 1

\* ---- C1 ----
\* C1: when operation k is the first operation of a request that fails,
\* validatePatch returns an error citing the 1-based index k together with
\* the empty PatchRequest, and no operation after k is taken up.
C1_FirstFailureAborts ==
    (fn = "validatePatch" /\ arg.decodes /\ state # "PerOperationLoop") =>
        \A k \in 1..Len(arg.Operations) :
            ( /\ OperationFails(arg.Operations[k], k)
              /\ \A j \in 1..(k - 1) : ~OperationFails(arg.Operations[j], j) )
            => /\ ret.kind = "err"
               /\ ret.err.index = k
               /\ ret.val = PatchRequest(<< >>, << >>)
               /\ index = k

\* ---- C2 ----
\* the keys of a value map that select no attribute of schema s
UnknownKeys(s, m, isExtension) ==
    {k \in DOMAIN m : patchAttributes(s, k, isExtension) = {}}

\* the keys of a value map that are attribute names of none of the schemas
\* of the resource type, with or without the schema's URN before them
ForeignKeys(m) ==
    {k \in DOMAIN m : \A s \in TargetSchemas : patchAttributes(s, k, TRUE) = {}}

\* C2: ValidatePatchOperation called with a value map one of whose keys
\* resolves to no attribute returns an InvalidValue error; and a PATCH
\* operation whose path resolves and whose value is a JSON object with a key
\* that is no top-level attribute name is Aborted with an InvalidValue error
\* citing the operation's index.
C2_UnknownKeyIsInvalidValue ==
    /\ ( /\ fn = "ValidatePatchOperation"
         /\ UnknownKeys(SchemaOf(arg.s), arg.operationValue, arg.isExtension) # {} )
       => (ret.kind = "err" /\ ret.err.scimType = "invalidValue")
    /\ ( /\ Handled(1)
         /\ ToLower(arg.Operations[index].Op) \in RecognizedVerbs
         /\ Resolves(arg.Operations[index].Path)
         /\ arg.Operations[index].Value.t = "map"
         /\ ForeignKeys(arg.Operations[index].Value.v) # {} )
       => ( /\ state = "Aborted"
            /\ ret.kind = "err"
            /\ ret.err.scimType = "invalidValue"
            /\ ret.err.index = index )

\* ---- C3 ----
\* the attributes a resolved path names, and the attributes it targets: those
\* attributes, or the sub-attributes of them the path names
NamedAttributes(path) ==
    UNION {{s.Attributes[i] :
              i \in ContainsAttribute(s.Attributes, path.AttributePath.AttributeName)}
           : s \in {u \in TargetSchemas :
                      path.AttributePath.URI \in {str_empty, u.ID}}}
TargetedAttributes(path) ==
    IF subAttributeNameOf(path) = str_empty THEN NamedAttributes(path)
    ELSE UNION {{a.subAttributes[i] :
                   i \in ContainsAttribute(a.subAttributes, subAttributeNameOf(path))}
                : a \in NamedAttributes(path)}

\* the canonical forms attribute validation produces for value, for the
\* attribute or sub-attribute the path targets
Canonical(path, value) ==
    {o.val : o \in {u \in UNION {CoreAttribute_validate(a, value)
                                  : a \in TargetedAttributes(path)}
                    : u.kind = "ok"}}

\* C3: the value of an operation validatePatch puts out for a resolved path
\* is the canonical form validation produces for the targeted attribute or
\* sub-attribute, whatever the letter case of the names in the path and
\* whether the sub-attribute stands in the path or after a value filter; a
\* valid input value that is not null is never put out as null.
C3_OutputValueIsCanonical ==
    fn = "validatePatch" =>
        \A i \in 1..Len(patchReq.Operations) :
            LET v == arg.Operations[i]
                out == patchReq.Operations[i]
            IN  out.Path # NoPath =>
                    /\ v.Value.t # "map" => out.Value \in Canonical(out.Path, v.Value)
                    /\ (\E c \in Canonical(out.Path, v.Value) : c # Null)
                       => out.Value # Null

\* ---- C4 ----
\* the attribute the key k of a value map selects: the first in schema order
SelectedAttribute(s, k, isExtension) ==
    LET sel == patchAttributes(s, k, isExtension)
    IN  s.Attributes[CHOOSE i \in sel : \A j \in sel : i <= j]

\* the verb may not touch the attribute
Forbidden(operation, a) ==
    \/ a.mutability = "readOnly"
    \/ a.mutability = "immutable" /\ operation \in {str_replace, str_remove}

\* C4: for a value map whose keys all resolve, ValidatePatchOperation fails
\* with the "cannot be patched" InvalidValue error exactly when an attribute
\* is readOnly (any verb) or immutable with replace or remove; otherwise the
\* outcome is that of validating the value against the attribute, so add on
\* an immutable attribute is validated normally.
C4_MutabilityGuardsPatch ==
    ( /\ fn = "ValidatePatchOperation"
      /\ UnknownKeys(SchemaOf(arg.s), arg.operationValue, arg.isExtension) = {} )
    => LET s == SchemaOf(arg.s)
           m == arg.operationValue
           attrOf(k) == SelectedAttribute(s, k, arg.isExtension)
           refused == {k \in DOMAIN m : Forbidden(arg.operation, attrOf(k))}
           refusals == {Fail(InvalidValue("cannot be patched", attrOf(k).name))
                        : k \in refused}
       IN  /\ refused # {} => ret.kind = "err" /\ ret.err.scimType = "invalidValue"
           /\ ret.kind = "ok" => refused = {}
           /\ \A k \in DOMAIN m :
                DOMAIN m = {k} =>
                    IF k \in refused THEN ret \in refusals
                    ELSE /\ ret \notin refusals
                         /\ \E o \in CoreAttribute_validate(attrOf(k), m[k]) :
                              IF o.kind = "ok" THEN ret = Ok(One(k, o.val))
                              ELSE ret = o

\* add on the immutable attribute code went through validation and succeeded
C4_Witness ==
    /\ fn = "ValidatePatchOperation"
    /\ arg.operation = str_add
    /\ arg.operationValue = One(str_code, String(str_x)).v
    /\ ret = Ok(One(str_code, String(str_x)))

\* ---- C5 ----
\* the verb as written is one of the three, letter case aside
Recognized(op) == \E r \in RecognizedVerbs : EqualFold(op, r)

\* the operation validatePatch handled last was refused with this scimType
RefusedWith(scimType) ==
    /\ state = "Aborted"
    /\ ret.kind = "err"
    /\ ret.err.scimType = scimType
    /\ ret.err.index = index
    /\ ret.val = PatchRequest(<< >>, << >>)

\* C5: the verb is compared without regard to letter case; an operation
\* whose verb is not add, replace or remove aborts the request with
\* InvalidFilter citing its index, whatever its path (so an unresolvable
\* path with an unrecognized verb gives InvalidFilter, not InvalidPath), and
\* no operation with a recognized verb does.
C5_UnrecognizedVerbIsInvalidFilter ==
    Handled(1) =>
        /\ ~Recognized(arg.Operations[index].Op) <=> RefusedWith("invalidFilter")
        /\ (ret.kind = "err" /\ ret.err.scimType = "invalidFilter")
           => RefusedWith("invalidFilter")

\* the second operation has the verb move and a path that does not resolve
C5_Witness ==
    /\ Handled(2)
    /\ arg.Operations[index].Op = str_move
    /\ ~Resolves(arg.Operations[index].Path)
    /\ RefusedWith("invalidFilter")

\* ---- C6 ----
\* C6: an operation aborts the request with InvalidPath citing its index
\* exactly when its verb is recognized and either the verb is remove and the
\* path does not resolve (the empty path included) or the verb is add or
\* replace and the path is not empty and does not resolve; add or replace
\* with the empty path is accepted and put out with no path and with its
\* raw value.
C6_InvalidPathCases ==
    Handled(1) =>
        LET v == arg.Operations[index]
            verb == ToLower(v.Op)
        IN  /\ RefusedWith("invalidPath") <=>
                \/ verb = str_remove /\ ~Resolves(v.Path)
                \/ /\ verb \in {str_add, str_replace}
                   /\ v.Path.text # "empty"
                   /\ ~Resolves(v.Path)
            /\ (ret.kind = "err" /\ ret.err.scimType = "invalidPath")
               => RefusedWith("invalidPath")
            /\ (verb \in {str_add, str_replace} /\ v.Path.text = "empty")
               => /\ state \in {"PerOperationLoop", "Done"}
                  /\ patchReq.Operations[index] = PatchOperation(verb, NoPath, v.Value)

\* the second operation is a replace with the empty path and a value; it is
\* put out with no path and that value
C6_Witness ==
    /\ Handled(2)
    /\ arg.Operations[index].Op = str_REPLACE
    /\ arg.Operations[index].Path.text = "empty"
    /\ arg.Operations[index].Value = String(str_x)
    /\ patchReq.Operations[index] = PatchOperation(str_replace, NoPath, String(str_x))

\* ---- C7 ----
\* C7: a request that ends in Done puts out as many operations as it was
\* given, and the operation at place i is the finalized form of the
\* operation given at place i, its verb lower-cased.
C7_DonePreservesOrder ==
    state = "Done" =>
        /\ ret.kind = "ok"
        /\ ret.val = patchReq
        /\ Len(ret.val.Operations) = Len(arg.Operations)
        /\ \A i \in 1..Len(arg.Operations) :
            /\ Ok(ret.val.Operations[i]) \in patchOperation(t, arg.Operations[i], i - 1)
            /\ ret.val.Operations[i].Op = ToLower(arg.Operations[i].Op)

\* a request of three operations or more, a replace first and an add second
C7_Witness ==
    /\ state = "Done"
    /\ Len(arg.Operations) >= 3
    /\ arg.Operations[1].Op = str_REPLACE
    /\ arg.Operations[2].Op = str_add
    /\ ret.val.Operations[1].Op = str_replace
    /\ ret.val.Operations[2].Op = str_add

\* ---- C8 ----
\* the last call was Schema.Validate or Schema.ValidateMutability on a
\* resource that is a mapping
SchemaCall ==
    fn \in {"Validate", "ValidateMutability"} /\ arg.resource.t = "map"

\* the keys of a document that match attribute a
Matching(a, doc) == {k \in DOMAIN doc : EqualFold(a.name, k)}

\* the document gives attribute a a value
Supplied(a, doc) == \E k \in Matching(a, doc) : doc[k] # Null

\* the keys of a document that match some attribute of the schema
KnownKeys(s, doc) ==
    {k \in DOMAIN doc : \E i \in 1..Len(s.Attributes) :
                            EqualFold(s.Attributes[i].name, k)}

\* the document with the keys of K only
Restrict(doc, K) == [k \in K |-> doc[k]]

\* C8, as the claim words it: on success the keys of the mapping returned
\* are exactly the names of the attributes that produced a value -- a
\* readOnly attribute and an attribute the input omits have no entry -- and
\* input keys that match no attribute never appear and never cause an error.
C8_KeysAreProducedValues ==
    SchemaCall =>
        LET s == SchemaOf(arg.s)
            doc == arg.resource.v
        IN  /\ ret.kind = "ok" =>
                DOMAIN ret.val.v =
                    {s.Attributes[i].name : i \in
                        {j \in 1..Len(s.Attributes) :
                            /\ Supplied(s.Attributes[j], doc)
                            /\ s.Attributes[j].mutability # "readOnly"}}
            /\ ret \in Schema_validate(s, Map(Restrict(doc, KnownKeys(s, doc))),
                                       fn = "ValidateMutability")

\* ---- C9 ----
\* the schema with the attributes before attribute i only
Prefix(s, i) == Schema(s.ID, SubSeq(s.Attributes, 1, i - 1))

\* no attribute before attribute i fails on the document
EarlierPass(s, doc, i, checkMutability) ==
    \A o \in Schema_validate(Prefix(s, i), Map(doc), checkMutability) : o.kind = "ok"

\* the Mutability error naming attribute a
MutabilityError(a) ==
    Fail(ScimError("mutability", "Attribute name", a.name, str_empty))

\* the document, attribute a apart, is valid, and so is what it gives a
OtherwiseValid(s, a, doc) ==
    /\ \A o \in Schema_validate(s, Map(Restrict(doc, DOMAIN doc \ Matching(a, doc))),
                                FALSE) : o.kind = "ok"
    /\ \A k \in Matching(a, doc) :
        \A o \in CoreAttribute_validate(a, doc[k]) : o.kind = "ok"

\* what C9 says of Validate and of a document without the attribute
C9Rest(s, a, doc) ==
    /\ fn = "Validate" =>
        /\ ~(ret.kind = "err" /\ ret.err.scimType = "mutability")
        /\ (Cardinality(Matching(a, doc)) = 1 /\ OtherwiseValid(s, a, doc))
           => ret.kind = "ok"
    /\ Matching(a, doc) = {} => ret # MutabilityError(a)

\* C9, as the claim words it: for an immutable attribute and a document
\* with exactly one key matching it, ValidateMutability fails with the
\* Mutability error naming the attribute, whatever the value; Validate does
\* not raise Mutability and succeeds when the document is otherwise valid;
\* a document without the attribute is never rejected with Mutability.
C9_ImmutableIsRefused ==
    SchemaCall =>
        LET s == SchemaOf(arg.s)
            doc == arg.resource.v
        IN  \A i \in 1..Len(s.Attributes) :
                s.Attributes[i].mutability = "immutable" =>
                    /\ ( /\ fn = "ValidateMutability"
                         /\ Cardinality(Matching(s.Attributes[i], doc)) = 1 )
                       => ret = MutabilityError(s.Attributes[i])
                    /\ C9Rest(s, s.Attributes[i], doc)

\* C9, amended: the same, provided no attribute earlier in schema order
\* fails on the document; when one does, ValidateMutability returns that
\* attribute's error.
C9_ImmutableIsRefusedUnlessEarlierFails ==
    SchemaCall =>
        LET s == SchemaOf(arg.s)
            doc == arg.resource.v
        IN  \A i \in 1..Len(s.Attributes) :
                s.Attributes[i].mutability = "immutable" =>
                    /\ ( /\ fn = "ValidateMutability"
                         /\ Cardinality(Matching(s.Attributes[i], doc)) = 1 )
                       => IF EarlierPass(s, doc, i, TRUE)
                          THEN ret = MutabilityError(s.Attributes[i])
                          ELSE ret \in Schema_validate(Prefix(s, i), Map(doc), TRUE)
                    /\ C9Rest(s, s.Attributes[i], doc)

\* ValidateMutability on a document with a valid earlier attribute and a
\* value for the immutable attribute code that is no string
C9_Witness ==
    /\ fn = "ValidateMutability"
    /\ arg.resource = Two(str_active, String(str_true), str_code, Number(str_7))
    /\ ret.kind = "err"
    /\ ret.err.scimType = "mutability"
    /\ ret.err.name = str_code

\* ---- C10 ----
\* C10: when two or more keys of the input are equal to the name of an
\* attribute, letter case aside, and no attribute earlier in schema order
\* fails, Schema.validate fails with DuplicateAttributeFound naming the
\* attribute, with or without the mutability check, whatever the mutability
\* of the attribute and whatever the values: the duplicate check comes
\* before the Mutability check and before the validation of the value.
C10_DuplicateKeysAreRefused ==
    SchemaCall =>
        LET s == SchemaOf(arg.s)
            doc == arg.resource.v
        IN  \A i \in 1..Len(s.Attributes) :
                ( /\ Cardinality(Matching(s.Attributes[i], doc)) >= 2
                  /\ EarlierPass(s, doc, i, fn = "ValidateMutability") )
                => ret = Fail(ScimError("duplicateAttributeFound", "Attribute name",
                                        s.Attributes[i].name, str_empty))

\* ValidateMutability on a document with a valid earlier attribute and two
\* keys for the immutable attribute code, one with a value that is no string
C10_Witness ==
    /\ fn = "ValidateMutability"
    /\ DOMAIN arg.resource.v = {str_active, str_code, str_CODE}
    /\ arg.resource.v[str_active] = String(str_true)
    /\ arg.resource.v[str_code] = Number(str_7)
    /\ ret.kind = "err"
    /\ ret.err.scimType = "duplicateAttributeFound"
    /\ ret.err.name = str_code

\* ---- C11 ----
\* a call of CoreAttribute.validate that returned
AttributeCall == fn = "validate"

\* a value of the type of a singular string or boolean attribute
ValidFor(a, x) ==
    \/ a.typ = "string" /\ ~a.multiValued /\ x.t = "string"
    \/ a.typ = "boolean" /\ ~a.multiValued /\ x.t = "bool"

\* C11: CoreAttribute.validate on an absent value (nil, which stands for no
\* matching key and for an explicit null) fails with InvalidValue naming
\* the attribute when the attribute is required and returns no value and
\* no error when it is not, whatever the mutability, readOnly included; a
\* required attribute that is not readOnly, given a value of its type,
\* succeeds with that value.
C11_AbsentDependsOnRequired ==
    AttributeCall =>
        /\ arg.attribute = Null =>
                ret = IF arg.a.required
                      THEN Fail(InvalidValue("Attribute name", arg.a.name))
                      ELSE Ok(Null)
        /\ ( /\ arg.a.required
             /\ arg.a.mutability # "readOnly"
             /\ ValidFor(arg.a, arg.attribute) )
            => ret = Ok(arg.attribute)

\* a required readOnly attribute called with nil fails with InvalidValue
C11_Witness ==
    /\ AttributeCall
    /\ arg.attribute = Null
    /\ arg.a.required
    /\ arg.a.mutability = "readOnly"
    /\ ret.kind = "err"
    /\ ret.err.scimType = "invalidValue"

\* ---- C12 ----
\* singular validation of the value came to pass: validateSingular was
\* called, or validate was called on a singular attribute that is not
\* readOnly with a value that is not nil
SingularCall ==
    \/ fn = "validateSingular"
    \/ /\ fn = "validate"
       /\ ~arg.a.multiValued
       /\ arg.a.mutability # "readOnly"
       /\ arg.attribute # Null

\* C12 as stated: a boolean attribute accepts a string if and only if it
\* equals "true" or "false" in any letter case.
C12_BooleanStringsAnyCase ==
    (SingularCall /\ arg.a.typ = "boolean" /\ arg.attribute.t = "string") =>
        ( ret.kind = "ok" <=>
            \/ EqualFold(arg.attribute.v, str_true)
            \/ EqualFold(arg.attribute.v, str_false) )

\* C12: singular validation of a boolean attribute returns a native boolean
\* as it is; it accepts a string if and only if the string is exactly one
\* of "true", "True", "false", "False" and returns the boolean it spells;
\* every other string ("TRUE", "fAlSe", "maybe") and every value of another
\* type fails with InvalidValue.
C12_BooleanStringsAsListed ==
    (SingularCall /\ arg.a.typ = "boolean") =>
        ret = IF arg.attribute.t = "bool" THEN Ok(arg.attribute)
              ELSE IF arg.attribute \in {String(str_true), String(str_True)}
              THEN Ok(Bool(TRUE))
              ELSE IF arg.attribute \in {String(str_false), String(str_False)}
              THEN Ok(Bool(FALSE))
              ELSE Fail(InvalidValue("Boolean attribute not the right type",
                                     arg.a.name))

\* the string "True" came back as the boolean true
C12_Witness ==
    /\ SingularCall
    /\ arg.a.typ = "boolean"
    /\ arg.attribute = String(str_True)
    /\ ret = Ok(Bool(TRUE))

\* ---- C13 ----
\* validate was called on a multi-valued attribute that is not readOnly
\* with a value that is not nil
MultiValuedCall ==
    /\ fn = "validate"
    /\ arg.a.multiValued
    /\ arg.a.mutability # "readOnly"
    /\ arg.attribute # Null

\* C13: CoreAttribute.validate on a multi-valued attribute that is not
\* readOnly, given a value: a value that is neither a list nor a mapping
\* fails with InvalidValue (not an array); an empty list and an empty mapping
\* fail with InvalidValue (was empty) when the attribute is required, and
\* come back as the empty list and the empty mapping when it is not.
C13_MultiValuedShapes ==
    MultiValuedCall =>
        /\ arg.attribute.t \notin {"list", "map"} =>
                ret = Fail(InvalidValue("Multivalued attribute was not an array",
                                        arg.a.name))
        /\ arg.attribute \in {List(<< >>), Map(EmptyMap)} =>
                ret = IF arg.a.required
                      THEN Fail(InvalidValue("Multivalued attribute was empty",
                                             arg.a.name))
                      ELSE Ok(arg.attribute)
        /\ ret.kind # "panic"
        /\ ret.kind = "err" => ret.err.scimType = "invalidValue"

\* a required multi-valued attribute given the empty mapping fails
C13_Witness ==
    /\ MultiValuedCall
    /\ arg.a.required
    /\ arg.attribute = Map(EmptyMap)
    /\ ret.kind = "err"
    /\ ret.err.msg = "Multivalued attribute was empty"

\* ---- C14 ----
\* C14: singular validation of a complex attribute given a value that is no
\* mapping returns the value unchanged when the value is a string and the
\* name of the attribute is "manager" in any letter case, and fails with
\* InvalidValue in every other case: another name with any such value, or
\* "manager" with a value that is no string.
C14_ManagerTakesBareString ==
    (SingularCall /\ arg.a.typ = "complex" /\ arg.attribute.t # "map") =>
        ret = IF ToLower(arg.a.name) = str_manager /\ arg.attribute.t = "string"
              THEN Ok(arg.attribute)
              ELSE Fail(InvalidValue(
                        "Complex attribute does not have the right structure",
                        arg.a.name))

\* the attribute MANAGER given a bare string returns it
C14_Witness ==
    /\ fn = "validateSingular"
    /\ arg.a.typ = "complex"
    /\ arg.a.name = str_MANAGER
    /\ arg.attribute = String(str_x)
    /\ ret = Ok(String(str_x))

\* ---- C15 ----
\* a call of ResourceType.validate
ResourceCall == fn = "ResourceType_validate"

\* the document of the call, and whether its base attributes validate
Document == arg.raw.m
BaseValidates ==
    /\ arg.raw.decodes
    /\ \E o \in Schema_Validate(schemaWithCommon(arg.rt), Map(Document)) :
            o.kind = "ok"

\* extension i of the resource type of the call: its URI, its payload in
\* the document (nil when there is none), what validating the payload
\* against its schema gives
ExtensionID(i) == arg.rt.SchemaExtensions[i].Schema.ID
Payload(i) == Get(Document, ExtensionID(i))
PayloadResults(i) == Schema_Validate(getSchemaExtensions(arg.rt)[i], Payload(i))

\* extension i ends the validation: required and missing, or present with
\* a payload that does not validate
Stops(i) ==
    IF Payload(i) = Null THEN arg.rt.SchemaExtensions[i].Required
    ELSE \E o \in PayloadResults(i) : o.kind # "ok"

\* C15: once the base schema validated, ResourceType.validate takes the
\* extensions in order.  The first extension that is required and has no
\* payload under its URI gives InvalidValue naming the extension; the first
\* whose payload fails validation against its schema (the loader's, when
\* dynamic) gives that failure.  When there is neither, the output holds,
\* under the URI of every extension with a payload, the validated payload,
\* and no entry under the URI of an extension without one.
C15_ExtensionsInOrder ==
    (ResourceCall /\ BaseValidates) =>
        LET n == Len(arg.rt.SchemaExtensions) IN
        /\ \A i \in 1..n :
            (Stops(i) /\ \A j \in 1..(i - 1) : ~Stops(j)) =>
                IF Payload(i) = Null
                THEN ret = Fail(ScimError("invalidValue", "Missing extension name",
                                          ExtensionID(i), str_empty))
                ELSE ret.kind # "ok" /\ ret \in PayloadResults(i)
        /\ (\A i \in 1..n : ~Stops(i)) =>
            /\ ret.kind = "ok"
            /\ \A i \in 1..n :
                IF Payload(i) = Null
                THEN ExtensionID(i) \notin DOMAIN ret.val.v
                ELSE /\ ExtensionID(i) \in DOMAIN ret.val.v
                     /\ Ok(ret.val.v[ExtensionID(i)]) \in PayloadResults(i)

\* a document with no payload for the optional static extension and a valid
\* one for the dynamic extension: the output has the validated payload
\* under the dynamic extension's URI and nothing under the other
C15_Witness ==
    /\ ResourceCall
    /\ ~arg.rt.SchemaExtensions[1].Required
    /\ Payload(1) = Null
    /\ Payload(2) = One(str_costCenter, Number(str_1p5))
    /\ ret.kind = "ok"
    /\ str_urnE \notin DOMAIN ret.val.v
    /\ str_urnD \in DOMAIN ret.val.v
    /\ ret.val.v[str_urnD].v[str_costCenter].t = "float64"

\* ---- C16 ----
\* C16: a call of Schema.validate, of Schema.ValidatePatchOperation or of
\* the validation of an attribute has one result only: every run on the
\* same receiver and the same input returns what this run returned, the
\* same value or the same error, in whatever order the keys of an input map
\* are visited.
C16_OneResultPerInput ==
    /\ fn \in {"Validate", "ValidateMutability"} =>
            Schema_validate(SchemaOf(arg.s), arg.resource,
                            fn = "ValidateMutability") = {ret}
    /\ fn = "ValidatePatchOperation" =>
            Schema_ValidatePatchOperation(SchemaOf(arg.s), arg.operation,
                arg.operationValue, arg.isExtension) = {ret}
    /\ fn = "validate" => CoreAttribute_validate(arg.a, arg.attribute) = {ret}
    /\ fn = "validateSingular" =>
            CoreAttribute_validateSingular(arg.a, arg.attribute) = {ret}

\* ---- C17 ----
\* validatePatch was called with a body that decodes and holds no operation
ZeroOperations ==
    /\ fn = "validatePatch"
    /\ arg.readable
    /\ arg.decodes
    /\ Len(arg.Operations) = 0

\* C17: validatePatch on a body that decodes and holds no operation returns
\* the empty PatchRequest with an InvalidValue error (zero operations), and
\* has by then taken up no operation, called no SchemaLoader and built no
\* value to validate.
C17_ZeroOperationsRefused ==
    ZeroOperations =>
        /\ ret.kind = "err"
        /\ ret.err.scimType = "invalidValue"
        /\ ret.err.msg = "Zero operations found in request body"
        /\ ret.val = PatchRequest(<< >>, << >>)
        /\ state = "Aborted"
        /\ index = 0
        /\ \A i \in DOMAIN loads : loads[i] = 0
        /\ mapValue = NoArg

\* the call on such a body returned
C17_Witness ==
    /\ ZeroOperations
    /\ arg.Schemas = <<str_PatchOp>>
    /\ ret.kind = "err"
    /\ state = "Aborted"

\* ---- C18 ----
\* C18: when the pass for an operation whose path resolved has built the
\* value map it hands to ValidatePatchOperation, that map has one key, the
\* attribute name of the path, holding the operation's value as given for a
\* path without sub-attribute and the one-key map from the sub-attribute
\* name to that value otherwise, whatever the shape of the value, a map
\* included.
C18_HandedMapHasOneKey ==
    (fn = "validatePatch" /\ index >= 1 /\ mapValue # NoArg) =>
        LET v == arg.Operations[index]
            path == Path(v.Path)
            attributeName == path.AttributePath.AttributeName
            subAttributeName == subAttributeNameOf(path)
        IN  /\ DOMAIN mapValue.v = {attributeName}
            /\ mapValue.v[attributeName] =
                    IF subAttributeName = str_empty THEN v.Value
                    ELSE One(subAttributeName, v.Value)

\* ---- C19 ----
\* the sub-attributes of the attribute of the call that the key k of a
\* legacy map matches
MatchedSubAttributes(k) ==
    {i \in 1..Len(arg.a.subAttributes) : EqualFold(arg.a.subAttributes[i].name, k)}

\* C19, list input: the result is a list as long as the input whose i-th
\* element is what singular validation gives for the i-th input element,
\* and an element that fails validation fails the call.
C19_List ==
    LET arr == arg.attribute.v IN
    /\ ret.kind = "ok" =>
        /\ ret.val.t = "list"
        /\ Len(ret.val.v) = Len(arr)
        /\ \A i \in 1..Len(arr) :
                Ok(ret.val.v[i]) \in CoreAttribute_validateSingular(arg.a, arr[i])
    /\ (\E i \in 1..Len(arr) :
            \A o \in CoreAttribute_validateSingular(arg.a, arr[i]) : o.kind # "ok")
        => ret.kind = "err"

\* C19, legacy map input: the result holds only names of sub-attributes that
\* a key of the input matches, each with what validation of that
\* sub-attribute gives for a value supplied for it, and a matched value that
\* fails validation fails the call.
C19_LegacyMap ==
    LET arr == arg.attribute.v IN
    /\ ret.kind = "ok" =>
        /\ ret.val.t = "map"
        /\ \A n \in DOMAIN ret.val.v :
            \E k \in DOMAIN arr : \E i \in MatchedSubAttributes(k) :
                /\ arg.a.subAttributes[i].name = n
                /\ Ok(ret.val.v[n]) \in
                        CoreAttribute_validate(arg.a.subAttributes[i], arr[k])
    /\ (\E k \in DOMAIN arr : \E i \in MatchedSubAttributes(k) :
            \A o \in CoreAttribute_validate(arg.a.subAttributes[i], arr[k]) :
                o.kind # "ok")
        => ret.kind = "err"

\* C19: the result of validating a multi-valued attribute holds validated,
\* canonical values only, for a list and for a legacy map.
C19_MultiValuedResultIsCanonical ==
    MultiValuedCall =>
        /\ arg.attribute.t = "list" => C19_List
        /\ arg.attribute.t = "map" => C19_LegacyMap

\* ---- C20 ----
\* the operations among the first k of the PATCH request whose path
\* resolves and names the URI of extension i of t; of these, the ones
\* with a verb validatePatch knows
Targeting(i, k) ==
    {j \in 1..k :
        /\ Resolves(arg.Operations[j].Path)
        /\ EqualFold(Path(arg.Operations[j].Path).AttributePath.URI,
                     t.SchemaExtensions[i].Schema.ID)}
Validating(i, k) ==
    {j \in Targeting(i, k) : ToLower(arg.Operations[j].Op) \in RecognizedVerbs}

\* C20 as stated: in ResourceType.validate the loader of a dynamic extension
\* is called exactly once when the document has a payload for the extension
\* and the base schema validated, and not at all otherwise; in validatePatch
\* it is called at most once per operation taken up plus once per operation
\* taken up whose resolved path targets the extension.
C20_LoaderCalls ==
    /\ ResourceCall =>
        \A i \in DOMAIN loads :
            loads[i] = IF /\ arg.rt.SchemaExtensions[i].LoadDynamically
                          /\ BaseValidates
                          /\ Payload(i) # Null
                       THEN 1 ELSE 0
    /\ fn = "validatePatch" =>
        \A i \in DOMAIN loads :
            loads[i] <= IF t.SchemaExtensions[i].LoadDynamically
                        THEN index + Cardinality(Targeting(i, index))
                        ELSE 0

\* C20: in ResourceType.validate the loader of a dynamic extension is called
\* exactly once when the base schema validated, no earlier extension ended
\* the validation and the document has a payload for the extension, and
\* not at all otherwise; in validatePatch it is called once for every
\* operation taken up, whatever its verb and path, and once more for every
\* operation taken up that has a known verb and a resolved path naming the
\* extension's URI; operations after the first failing one are not taken
\* up, and a request with no operation calls no loader.
C20_LoaderCallsWhenReached ==
    /\ ResourceCall =>
        \A i \in DOMAIN loads :
            loads[i] = IF /\ arg.rt.SchemaExtensions[i].LoadDynamically
                          /\ BaseValidates
                          /\ \A j \in 1..(i - 1) : ~Stops(j)
                          /\ Payload(i) # Null
                       THEN 1 ELSE 0
    /\ fn = "validatePatch" =>
        /\ \A i \in DOMAIN loads :
            loads[i] = IF t.SchemaExtensions[i].LoadDynamically
                       THEN index + Cardinality(Validating(i, index))
                       ELSE 0
        /\ state \in {"Aborted", "Panicked"} =>
                \A k \in 1..(index - 1) : ~OperationFails(arg.Operations[k], k)

\* a document whose payload for the static extension fails validation and
\* that has a payload for the dynamic extension: its loader was not called
C20_Witness ==
    /\ ResourceCall
    /\ BaseValidates
    /\ Stops(1)
    /\ arg.rt.SchemaExtensions[2].LoadDynamically
    /\ Payload(2) = One(str_costCenter, Number(str_1p5))
    /\ ret.kind = "err"
    /\ loads[2] = 0

\* ---- C21 ----
\* the spare capacity t.Schema.Attributes was configured with
Spare == Len(array) - Len(t.Schema.Attributes)

\* C21: validation calls share no mutable state.  Under every interleaving
\* of calls of validate and validatePatch on the one ResourceType, no call
\* has stored into the memory of the configured base schema (the array of
\* its Attributes is as it was configured, schemaWithCommon's append
\* included), no two calls in flight have raced on it, the configured base
\* schema holds the attributes it was configured with, and every call was
\* given an effective base schema of the base attributes followed by one
\* externalId attribute.
C21_NoSharedMutableState ==
    /\ array = ConfiguredArray(Spare)
    /\ ~raced
    /\ SubSeq(array, 1, Len(t.Schema.Attributes)) = t.Schema.Attributes
    /\ \A c \in 1..MaxCalls :
            calls[c].pc # "idle" =>
                calls[c].s = Schema(t.Schema.ID,
                                    Append(t.Schema.Attributes, externalID))

==========================================================================
